---------------------------- MODULE Spec2Model ----------------------------
(***************************************************************************)
(* Model of the WASM audio backend (src/audio/wasmaudio.c): the           *)
(* single-producer/single-consumer sample ring (WasmAudioRingBuffer,      *)
(* ring_write, ring_read) and the stream endpoints built on it.           *)
(*                                                                         *)
(* Samples are modelled as integer tags; a freshly allocated ring holds   *)
(* zeros (g_malloc0).  The ring size of the source (16384) is scaled to   *)
(* 2^RingBits so that filling and wrapping happen within a few calls.     *)
(*                                                                         *)
(* The later sections add the host side of that backend (the AudioContext *)
(* behind window._wasmAudio), its lifecycle, interruption and gain        *)
(* controls, and the QEMU audio driver of src/audio/wasmaud.c with its    *)
(* byte ring shared with the page.                                        *)
(***************************************************************************)
EXTENDS Integers, Sequences, FiniteSets, TLC

VARIABLES
    ring,       \* the WasmAudioRingBuffer under test: buffer, read_pos, write_pos
    accepted,   \* ghost: every sample accepted by ring_write, in order
    got,        \* ghost: every sample returned by ring_read, in order
    lastOp,     \* ghost: the last call made on the ring
    lastReq,    \* ghost: the count argument of that call
    lastRet,    \* ghost: the value that call returned
    scenario,   \* ghost: how far the capacity scenario of the ring has been followed
    p_pc,       \* producer inside ring_write: "idle", "copy" (cursors loaded), "store" (copied)
    p_count,    \* producer's local count after the clamp
    c_pc,       \* consumer inside ring_read: "idle", "copy", "store"
    c_count,    \* consumer's local count after the clamp
    c_data,     \* what the consumer's memcpy put in the caller's array
    wasm_audio_state,            \* the global session: NULL or one WasmAudioGlobalState
    wasm_audio_temp_buffer,      \* the shared staging array (NULL is the empty array)
    wasm_audio_temp_buffer_size, \* its recorded capacity
    hw_out,     \* the output voice's format (HWVoiceOut.info), once wasm_init_out ran
    hw_in,      \* the input voice's format (HWVoiceIn.info), once wasm_init_in ran
    js_inputNode, \* the host's capture callback is connected
    out_accepted, \* ghost: samples the output ring accepted in this session
    in_accepted,  \* ghost: samples the input ring accepted in this session
    js_wasmAudio, \* window._wasmAudio of wasmaudio.c: NULL or one record
    user_gesture, \* the page has had a user gesture: the browser lets a context run
    pre_interrupt, \* ghost: info.state when the last interruption began, and the
                  \* number of begin events since (counted to 2)
    heard,        \* ghost: the values the last render block sent past the gain node
    configured,   \* ghost: the volume most recently configured in each driver (by
                  \* its init or its set_volume), and whether it was set while muted
    wasmaud_state, \* wasmaud.c: the driver's global WasmAudioState
    wasmaud_voice, \* wasmaud.c: NULL or the one WasmVoiceOut
    Module,       \* wasmaud.c: the fields the JavaScript side keeps on Module
    wasm_gpu_state,     \* wasm-virtio-gpu.c: NULL or the WasmGpuState (fence table)
    fence_life,         \* ghost: per fence id, "none", "pending" or "signaled"
    wasm_display_state, \* wasm-display.c: NULL or the WasmDisplayState
    since_ack,          \* ghost: the rectangles flushed or updated since the last ack
    since_reset         \* ghost: the same since the last ack or surface switch

ringVars == <<ring, accepted, got>>
callVars == <<lastOp, lastReq, lastRet>>
spscVars == <<p_pc, p_count, c_pc, c_count, c_data>>
sessVars == <<wasm_audio_state, wasm_audio_temp_buffer, wasm_audio_temp_buffer_size,
              hw_out, hw_in, js_inputNode, out_accepted, in_accepted>>

ctlVars  == <<js_wasmAudio, user_gesture, pre_interrupt, heard, configured>>
waudVars == <<wasmaud_state, wasmaud_voice, Module>>

uiVars   == <<wasm_gpu_state, fence_life, wasm_display_state, since_ack, since_reset>>

vars == <<ringVars, callVars, scenario, uiVars, spscVars, sessVars, ctlVars, waudVars>>

-----------------------------------------------------------------------------
(* Bounds of the model *)

\* log2 of the ring size used by the model
RingBits == 3
\* ring_write / ring_read are called with counts 0 .. ring size + ExtraChunk
ExtraChunk == 1
\* writes are offered while fewer than ring size + ExtraSamples samples were accepted
ExtraSamples == 4
\* wasmaud.c: frames in one render block of the model (2048 in the source)
BlockFrames == 2

-----------------------------------------------------------------------------
(* Integer helpers *)

RECURSIVE Pow2(_)
Pow2(n) == IF n = 0 THEN 1 ELSE 2 * Pow2(n - 1)

Min(a, b) == IF a <= b THEN a ELSE b

\* the C operator & on non-negative integers
RECURSIVE BitAnd(_, _)
BitAnd(a, b) ==
    IF a = 0 \/ b = 0 THEN 0
    ELSE (a % 2) * (b % 2) + 2 * BitAnd(a \div 2, b \div 2)

\* uint32_t arithmetic wraps modulo 2^32; every use below is masked with
\* WASM_AUDIO_RING_MASK (< 2^30), so only the low 30 bits of the wrapped
\* value reach the result, and those are x mod 2^30.
U32Low(x) == x % 1073741824

IsPrefix(s, t) ==
    /\ Len(s) <= Len(t)
    /\ \A i \in 1..Len(s) : s[i] = t[i]

-----------------------------------------------------------------------------
(* Ring buffer operations, src/audio/wasmaudio.c *)

WASM_AUDIO_RING_SIZE == Pow2(RingBits)
WASM_AUDIO_RING_MASK == WASM_AUDIO_RING_SIZE - 1

Slots == 0..(WASM_AUDIO_RING_SIZE - 1)

\* a ring right after g_malloc0 in wasm_audio_init (g_new0 zeroes the cursors)
NewRing == [buffer |-> [j \in Slots |-> 0], read_pos |-> 0, write_pos |-> 0]

\* faulty variant: the reserved slot is forgotten
ring_available_write_noreserve(rb) ==
    LET r == rb.read_pos
        w == rb.write_pos
    IN  BitAnd(U32Low(r - w), WASM_AUDIO_RING_MASK)

\* faulty variant: the cursors are subtracted the wrong way round
ring_available_write_swapped(rb) ==
    LET r == rb.read_pos
        w == rb.write_pos
    IN  BitAnd(U32Low(w - r - 1), WASM_AUDIO_RING_MASK)

ring_available_write(rb) ==
    LET r == rb.read_pos
        w == rb.write_pos
    IN  BitAnd(U32Low(r - w - 1), WASM_AUDIO_RING_MASK)

\* faulty variant: one sample more than was published is reported
ring_available_read_plus1(rb) ==
    LET r == rb.read_pos
        w == rb.write_pos
    IN  BitAnd(U32Low(w - r + 1), WASM_AUDIO_RING_MASK)

ring_available_read(rb) ==
    LET r == rb.read_pos
        w == rb.write_pos
    IN  BitAnd(U32Low(w - r), WASM_AUDIO_RING_MASK)

\* faulty variant: the wrapped part is copied from the start of data
ring_copy_in_nosplit(buffer, w, data, count) ==
    LET to_end == WASM_AUDIO_RING_SIZE - w
    IN  IF count <= to_end
        THEN [j \in Slots |->
                IF j >= w /\ j < w + count THEN data[j - w + 1] ELSE buffer[j]]
        ELSE [j \in Slots |->
                IF j >= w THEN data[j - w + 1]
                ELSE IF j < count - to_end THEN data[j + 1]
                ELSE buffer[j]]

\* the two memcpy branches of ring_write: count elements of data go to
\* buffer + w, split at the end of the array
ring_copy_in(buffer, w, data, count) ==
    LET to_end == WASM_AUDIO_RING_SIZE - w
    IN  IF count <= to_end
        THEN [j \in Slots |->
                IF j >= w /\ j < w + count THEN data[j - w + 1] ELSE buffer[j]]
        ELSE [j \in Slots |->
                IF j >= w THEN data[j - w + 1]
                ELSE IF j < count - to_end THEN data[to_end + j + 1]
                ELSE buffer[j]]

\* the two memcpy branches of ring_read: count elements from buffer + r
ring_copy_out(buffer, r, count) ==
    LET to_end == WASM_AUDIO_RING_SIZE - r
    IN  IF count <= to_end
        THEN [i \in 1..count |-> buffer[r + i - 1]]
        ELSE [i \in 1..count |->
                IF i <= to_end THEN buffer[r + i - 1] ELSE buffer[i - to_end - 1]]

\* the cursor store that ends ring_write and ring_read
ring_advance(pos, count) == BitAnd(U32Low(pos + count), WASM_AUDIO_RING_MASK)

\* the count ring_write and ring_read settle on
ring_clamp(count, available) == IF count > available THEN available ELSE count

\* faulty variant: the count asked for is returned, not the clamped one
ring_write_retcount(rb, data, count) ==
    LET n == ring_clamp(count, ring_available_write(rb))
        w == rb.write_pos
    IN  [ring |-> [rb EXCEPT !.buffer = ring_copy_in(rb.buffer, w, data, n),
                             !.write_pos = ring_advance(w, n)],
         ret  |-> count]

ring_write(rb, data, count) ==
    LET n == ring_clamp(count, ring_available_write(rb))
        w == rb.write_pos
    IN  [ring |-> [rb EXCEPT !.buffer = ring_copy_in(rb.buffer, w, data, n),
                             !.write_pos = ring_advance(w, n)],
         ret  |-> n]

\* faulty variant: the advanced cursor is stored to write_pos
ring_read_wrongcursor(rb, count) ==
    LET n == ring_clamp(count, ring_available_read(rb))
        r == rb.read_pos
    IN  [ring |-> [rb EXCEPT !.write_pos = ring_advance(r, n)],
         data |-> ring_copy_out(rb.buffer, r, n),
         ret  |-> n]

ring_read(rb, count) ==
    LET n == ring_clamp(count, ring_available_read(rb))
        r == rb.read_pos
    IN  [ring |-> [rb EXCEPT !.read_pos = ring_advance(r, n)],
         data |-> ring_copy_out(rb.buffer, r, n),
         ret  |-> n]

-----------------------------------------------------------------------------
(* One ring driven by sequential ring_write / ring_read calls *)

Chunks == 0..(WASM_AUDIO_RING_SIZE + ExtraChunk)

\* the samples a caller offers: fresh tags continuing the accepted stream
Offer(count) == [i \in 1..count |-> Len(accepted) + i]

\* the capacity scenario: write N-1, write 2, read 4, write 2
ScenarioScript ==
    << <<"ring_write", WASM_AUDIO_RING_SIZE - 1>>, <<"ring_write", 2>>,
       <<"ring_read", 4>>, <<"ring_write", 2>> >>

ScenarioNext(op, count) ==
    IF /\ scenario >= 0
       /\ scenario < Len(ScenarioScript)
       /\ ScenarioScript[scenario + 1] = <<op, count>>
    THEN scenario + 1
    ELSE -1

\* fence ids 1 .. MaxFenceId are created, signalled and polled
MaxFenceId == 3
FenceIds == 1..MaxFenceId

\* no GPU state and no display state before wasm_gpu_init and wasm_display_init
UiInit ==
    /\ wasm_gpu_state = << >>
    /\ fence_life = [id \in FenceIds |-> "none"]
    /\ wasm_display_state = << >>
    /\ since_ack = {}
    /\ since_reset = {}

Init ==
    /\ ring = NewRing
    /\ accepted = << >>
    /\ got = << >>
    /\ lastOp = "none"
    /\ lastReq = 0
    /\ lastRet = 0
    /\ scenario = 0
    /\ UiInit
    /\ p_pc = "idle"
    /\ p_count = 0
    /\ c_pc = "idle"
    /\ c_count = 0
    /\ c_data = << >>
    /\ wasm_audio_state = << >>
    /\ wasm_audio_temp_buffer = << >>
    /\ wasm_audio_temp_buffer_size = 0
    /\ hw_out = << >>
    /\ hw_in = << >>
    /\ js_inputNode = FALSE
    /\ out_accepted = 0
    /\ in_accepted = 0
    /\ js_wasmAudio = << >>
    /\ user_gesture = FALSE
    /\ pre_interrupt = [state |-> 0, begins |-> 0]
    /\ configured = [audio |-> <<(<<1, 1>>), (<<1, 1>>)>>, audio_muted |-> FALSE,
                     waud |-> <<0, 1>>, waud_muted |-> FALSE]
    /\ heard = {}
    /\ wasmaud_state = [initialized |-> FALSE, volume |-> <<0, 1>>, muted |-> FALSE]
    /\ wasmaud_voice = << >>
    /\ Module = << >>

RingWrite(count) ==
    /\ Len(accepted) < WASM_AUDIO_RING_SIZE + ExtraSamples
    /\ LET data == Offer(count)
           res  == ring_write(ring, data, count)
       IN  /\ ring' = res.ring
           /\ accepted' = accepted \o SubSeq(data, 1, res.ret)
           /\ lastRet' = res.ret
    /\ lastOp' = "ring_write"
    /\ lastReq' = count
    /\ scenario' = ScenarioNext("ring_write", count)
    /\ UNCHANGED <<ctlVars, waudVars, uiVars, got, spscVars, sessVars>>

RingRead(count) ==
    /\ LET res == ring_read(ring, count)
       IN  /\ ring' = res.ring
           /\ got' = got \o res.data
           /\ lastRet' = res.ret
    /\ lastOp' = "ring_read"
    /\ lastReq' = count
    /\ scenario' = ScenarioNext("ring_read", count)
    /\ UNCHANGED <<ctlVars, waudVars, uiVars, accepted, spscVars, sessVars>>

NextRing ==
    \/ \E count \in Chunks : RingWrite(count)
    \/ \E count \in Chunks : RingRead(count)

SpecRing == Init /\ [][NextRing]_vars

-----------------------------------------------------------------------------
(* One producer in ring_write and one consumer in ring_read on the same    *)
(* ring, interleaved between the cursor loads, the memcpy and the store of *)
(* the caller's own cursor.                                                *)

\* ring_write up to the clamp: both cursors are loaded by ring_available_write
ProducerLoad(count) ==
    /\ p_pc = "idle"
    /\ Len(accepted) < WASM_AUDIO_RING_SIZE + ExtraSamples
    /\ p_count' = ring_clamp(count, ring_available_write(ring))
    /\ p_pc' = "copy"
    /\ UNCHANGED <<ctlVars, waudVars, ringVars, callVars, scenario, uiVars, sessVars, c_pc, c_count, c_data>>

\* the memcpy of ring_write at the producer's own write_pos
ProducerCopy ==
    /\ p_pc = "copy"
    /\ ring' = [ring EXCEPT
                  !.buffer = ring_copy_in(ring.buffer, ring.write_pos,
                                          Offer(p_count), p_count)]
    /\ p_pc' = "store"
    /\ UNCHANGED <<ctlVars, waudVars, accepted, got, callVars, scenario, uiVars, sessVars, p_count, c_pc, c_count, c_data>>

\* the store of write_pos; ring_write returns p_count
ProducerStore ==
    /\ p_pc = "store"
    /\ ring' = [ring EXCEPT !.write_pos = ring_advance(ring.write_pos, p_count)]
    /\ accepted' = accepted \o Offer(p_count)
    /\ p_pc' = "idle"
    /\ p_count' = 0
    /\ UNCHANGED <<ctlVars, waudVars, got, callVars, scenario, uiVars, sessVars, c_pc, c_count, c_data>>

\* ring_read up to the clamp: both cursors are loaded by ring_available_read
ConsumerLoad(count) ==
    /\ c_pc = "idle"
    /\ c_count' = ring_clamp(count, ring_available_read(ring))
    /\ c_pc' = "copy"
    /\ UNCHANGED <<ctlVars, waudVars, ringVars, callVars, scenario, uiVars, sessVars, p_pc, p_count, c_data>>

\* the memcpy of ring_read at the consumer's own read_pos
ConsumerCopy ==
    /\ c_pc = "copy"
    /\ c_data' = ring_copy_out(ring.buffer, ring.read_pos, c_count)
    /\ c_pc' = "store"
    /\ UNCHANGED <<ctlVars, waudVars, ringVars, callVars, scenario, uiVars, sessVars, p_pc, p_count, c_count>>

\* the store of read_pos; ring_read returns c_count and the caller has c_data
ConsumerStore ==
    /\ c_pc = "store"
    /\ ring' = [ring EXCEPT !.read_pos = ring_advance(ring.read_pos, c_count)]
    /\ got' = got \o c_data
    /\ c_pc' = "idle"
    /\ c_count' = 0
    /\ c_data' = << >>
    /\ UNCHANGED <<ctlVars, waudVars, accepted, callVars, scenario, uiVars, sessVars, p_pc, p_count>>

NextSPSC ==
    \/ \E count \in Chunks : ProducerLoad(count)
    \/ ProducerCopy
    \/ ProducerStore
    \/ \E count \in Chunks : ConsumerLoad(count)
    \/ ConsumerCopy
    \/ ConsumerStore

SpecSPSC == Init /\ [][NextSPSC]_vars

-----------------------------------------------------------------------------
(* The audio session, src/audio/wasmaudio.c.                               *)
(*                                                                         *)
(* A pointer is a sequence of length at most one (NULL is the empty         *)
(* sequence).  A float is a pair <<numerator, denominator>>; <<0, 0>>       *)
(* stands for an indeterminate value (memory that g_malloc did not          *)
(* initialise, or that lies past the end of an array).                      *)

NULL == << >>

Flt(n) == <<n, 1>>
ZeroF == <<0, 1>>
Indeterminate == <<0, 0>>

\* the capacity wasm_audio_get_input_buffer allocates (4096 in the source),
\* and the block length of the host's capture callback (1024), scaled
StagingDefault == 4
InputBlock == 2

\* enum WasmAudioState
WASM_AUDIO_STATE_CLOSED == 0
WASM_AUDIO_STATE_SUSPENDED == 1
WASM_AUDIO_STATE_RUNNING == 2
WASM_AUDIO_STATE_INTERRUPTED == 3

\* faulty variant: the sample is divided by the range of uint16_t
i16_to_float_halved(x) == <<x, 65536>>

\* src[i] / 32768.0f in wasm_write (exact in binary32 for every int16_t)
i16_to_float(x) == <<x, 32768>>

\* g_malloc(n * sizeof(float)): n floats of indeterminate content; g_malloc(0) is NULL
g_malloc(n) == [i \in 1..n |-> Indeterminate]

\* the first count floats behind a pointer, as a memcpy source
Floats(data, count) ==
    [i \in 1..count |-> IF i <= Len(data) THEN data[i] ELSE Indeterminate]

\* faulty variant: the zeroed allocation is left as g_new0 made it (without
\* the three 1.0f assignments)
NewSession_zeroed(channels) ==
    [initialized |-> TRUE,
     info        |-> [state |-> WASM_AUDIO_STATE_SUSPENDED,
                      samples_played |-> 0, samples_captured |-> 0,
                      underruns |-> 0, overruns |-> 0],
     config      |-> [channels |-> channels],
     volume_left |-> ZeroF, volume_right |-> ZeroF, muted |-> FALSE,
     input_gain  |-> ZeroF,
     interrupted |-> FALSE, autoplay_blocked |-> FALSE,
     output_ring |-> [buffer |-> [j \in Slots |-> ZeroF], read_pos |-> 0, write_pos |-> 0],
     input_ring  |-> [buffer |-> [j \in Slots |-> ZeroF], read_pos |-> 0, write_pos |-> 0]]

\* the state wasm_audio_init builds: g_new0, the two g_malloc0 rings, the
\* configuration, and state SUSPENDED
NewSession(channels) ==
    [initialized |-> TRUE,
     info        |-> [state |-> WASM_AUDIO_STATE_SUSPENDED,
                      samples_played |-> 0, samples_captured |-> 0,
                      underruns |-> 0, overruns |-> 0],
     config      |-> [channels |-> channels],
     volume_left |-> Flt(1), volume_right |-> Flt(1), muted |-> FALSE,
     input_gain  |-> Flt(1),
     interrupted |-> FALSE, autoplay_blocked |-> FALSE,
     output_ring |-> [buffer |-> [j \in Slots |-> ZeroF], read_pos |-> 0, write_pos |-> 0],
     input_ring  |-> [buffer |-> [j \in Slots |-> ZeroF], read_pos |-> 0, write_pos |-> 0]]

\* faulty variant: an open session takes over the configuration it is given
wasm_audio_init_reconfig(p, channels, js_ret) ==
    IF p # NULL /\ p[1].initialized
    THEN [state |-> <<[p[1] EXCEPT !.config.channels = channels]>>, ret |-> 0]
    ELSE IF js_ret < 0 THEN [state |-> NULL, ret |-> -1]
    ELSE [state |-> <<NewSession(channels)>>, ret |-> 0]

\* js_ret is what js_audio_init returns (0, or -1 when no context can be made)
wasm_audio_init(p, channels, js_ret) ==
    IF p # NULL /\ p[1].initialized THEN [state |-> p, ret |-> 0]
    ELSE IF js_ret < 0 THEN [state |-> NULL, ret |-> -1]
    ELSE [state |-> <<NewSession(channels)>>, ret |-> 0]

\* faulty variant: frames are compared with samples (the channel count is dropped)
wasm_audio_fill_buffer_nochannels(p, samples) ==
    IF p = NULL THEN p
    ELSE LET st        == p[1]
             available == ring_available_read(st.output_ring)
             needed    == samples
         IN  IF available < needed
             THEN <<[st EXCEPT !.info.underruns = @ + 1]>>
             ELSE p

wasm_audio_fill_buffer(p, samples) ==
    IF p = NULL THEN p
    ELSE LET st        == p[1]
             available == ring_available_read(st.output_ring)
             channels  == st.config.channels
             needed    == samples * channels
         IN  IF available < needed
             THEN <<[st EXCEPT !.info.underruns = @ + 1]>>
             ELSE p

\* what a division by config.channels leaves in the return value.  Dividing
\* by zero is undefined: the call traps (WebAssembly i32.div_u, x86 div), or
\* goes on with quotient 0 where the divide instruction does not trap
DivTrap == -8
UDiv(a, b) == IF b = 0 THEN 0 ELSE a \div b
Divisor(p) == IF p = NULL THEN 1 ELSE p[1].config.channels
Returned(p, ret) == IF Divisor(p) = 0 THEN {DivTrap, ret} ELSE {ret}

\* written is the count ring_write returned, ret what the caller gets
wasm_audio_write(p, data, samples) ==
    IF p = NULL \/ data = NULL THEN [state |-> p, ret |-> 0, written |-> 0]
    ELSE LET st       == p[1]
             channels == st.config.channels
             res      == ring_write(st.output_ring,
                                    Floats(data, samples * channels),
                                    samples * channels)
         IN  [state   |-> <<[st EXCEPT !.output_ring = res.ring,
                                       !.info.samples_played = @ + UDiv(res.ret, channels)]>>,
              ret     |-> UDiv(res.ret, channels),
              written |-> res.ret]

\* hw is the voice's format, src the caller's int16_t samples, len the byte
\* count offered, rate_bytes what audio_rate_get_bytes answers for len
wasm_write(p, temp, temp_size, hw, src, len, rate_bytes) ==
    LET bytes_per_frame == hw.nchannels * (hw.bits \div 8)
        samples         == len \div bytes_per_frame
    IN  IF hw.bits = 16
        THEN LET float_samples == samples * hw.nchannels
                 grow   == temp = NULL \/ temp_size < float_samples
                 buf    == IF grow THEN g_malloc(float_samples) ELSE temp
                 size   == IF grow THEN float_samples ELSE temp_size
                 filled == [i \in 1..Len(buf) |->
                              IF i <= float_samples THEN i16_to_float(src[i]) ELSE buf[i]]
                 res    == wasm_audio_write(p, filled, samples)
             IN  [state |-> res.state, temp |-> filled, temp_size |-> size,
                  written |-> res.written, ret |-> rate_bytes]
        ELSE [state |-> p, temp |-> temp, temp_size |-> temp_size,
              written |-> 0, ret |-> rate_bytes]

\* wasm_audio_get_input_buffer: the staging array, allocated on first use
wasm_audio_get_input_buffer(temp, temp_size) ==
    IF temp = NULL
    THEN [temp |-> g_malloc(StagingDefault), temp_size |-> StagingDefault]
    ELSE [temp |-> temp, temp_size |-> temp_size]

\* faulty variant: arriving input ends an interruption
wasm_audio_push_input_resuming(p, temp, samples) ==
    IF p = NULL \/ temp = NULL THEN [state |-> p, written |-> 0]
    ELSE LET st  == p[1]
             res == ring_write(st.input_ring, Floats(temp, samples), samples)
         IN  [state   |-> <<[st EXCEPT !.input_ring = res.ring,
                                       !.info.samples_captured = @ + samples,
                                       !.interrupted = FALSE,
                                       !.info.state = WASM_AUDIO_STATE_RUNNING]>>,
              written |-> res.ret]

\* wasm_audio_push_input(int samples); written is what ring_write returned.
\* ring_write takes a size_t: a negative samples becomes a count above every
\* ring size, which ring_write clamps to the free space (count)
wasm_audio_push_input(p, temp, samples) ==
    IF p = NULL \/ temp = NULL THEN [state |-> p, written |-> 0]
    ELSE LET st    == p[1]
             count == IF samples < 0 THEN ring_available_write(st.input_ring)
                      ELSE samples
             res   == ring_write(st.input_ring, Floats(temp, count), count)
         IN  [state   |-> <<[st EXCEPT !.input_ring = res.ring,
                                       !.info.samples_captured = @ + samples]>>,
              written |-> res.ret]

\* data is what the call leaves in the caller's array
wasm_audio_read(p, has_data, samples) ==
    IF p = NULL \/ ~has_data THEN [state |-> p, data |-> << >>, ret |-> 0]
    ELSE LET st  == p[1]
             res == ring_read(st.input_ring, samples)
         IN  [state |-> <<[st EXCEPT !.input_ring = res.ring]>>,
              data  |-> res.data,
              ret   |-> res.ret]

\* hw is the voice's format, size the byte count asked for, rate_bytes what
\* audio_rate_get_bytes answers for size; drained is read_samples.  The
\* conversion loop writes read_samples int16_t values to the caller's array
\* (or clears it for other formats) and changes no state of the backend.
wasm_read(p, temp, temp_size, hw, size, rate_bytes) ==
    LET bytes           == rate_bytes
        bytes_per_frame == hw.nchannels * (hw.bits \div 8)
        samples         == bytes \div bytes_per_frame
        float_samples   == samples * hw.nchannels
        grow    == temp = NULL \/ temp_size < float_samples
        buf     == IF grow THEN g_malloc(float_samples) ELSE temp
        bufsize == IF grow THEN float_samples ELSE temp_size
        res     == wasm_audio_read(p, buf # NULL, float_samples)
    IN  [state     |-> res.state,
         temp      |-> [i \in 1..Len(buf) |-> IF i <= res.ret THEN res.data[i] ELSE buf[i]],
         temp_size |-> bufsize,
         drained   |-> res.ret,
         ret       |-> bytes]

-----------------------------------------------------------------------------
(* The host side of wasmaudio.c: window._wasmAudio and its AudioContext.    *)
(* The context is created running when the page has had a user gesture and  *)
(* suspended otherwise; a resume() asked of a suspended context settles     *)
(* once a gesture has happened.                                             *)

RECURSIVE GCD(_, _)
GCD(a, b) == IF b = 0 THEN a ELSE GCD(b, a % b)

\* a float pair in lowest terms
Norm(a) ==
    IF a[2] = 0 THEN Indeterminate
    ELSE IF a[1] = 0 THEN ZeroF
    ELSE <<a[1] \div GCD(a[1], a[2]), a[2] \div GCD(a[1], a[2])>>

\* sample * gain, as the gain node computes it
Mul(a, b) == Norm(<<a[1] * b[1], a[2] * b[2]>>)

\* (left + right) / 2.0 in js_audio_set_volume
Avg(a, b) == Norm(<<a[1] * b[2] + b[1] * a[2], 2 * a[2] * b[2]>>)

\* js_audio_init.  env_ret is what the browser lets happen: 0, or -1 when
\* the try block throws; partial tells whether it threw after
\* window._wasmAudio was assigned and before the gain node was made.  With
\* use_worklet no processor is made; otherwise createScriptProcessor(size, 0,
\* channels) is called, which throws when both channel counts are zero
js_audio_init(js, gesture, channels, use_worklet, env_ret, partial) ==
    IF js # NULL THEN [js |-> js, ret |-> 0]
    ELSE LET made == [context   |-> IF gesture THEN "running" ELSE "suspended",
                      channels  |-> channels,
                      suspended |-> ~gesture,
                      gainNode  |-> FALSE,
                      gain      |-> Flt(1),
                      processor |-> FALSE,
                      resuming  |-> FALSE,
                      then_pending |-> FALSE]
         IN  IF env_ret < 0
             THEN [js |-> IF partial THEN <<made>> ELSE NULL, ret |-> -1]
             ELSE IF use_worklet
             THEN [js |-> <<[made EXCEPT !.gainNode = TRUE]>>, ret |-> 0]
             ELSE IF channels = 0
             THEN [js |-> <<[made EXCEPT !.gainNode = TRUE]>>, ret |-> -1]
             ELSE [js |-> <<[made EXCEPT !.gainNode = TRUE, !.processor = TRUE]>>,
                   ret |-> 0]

js_audio_resume(js) ==
    IF js = NULL THEN [js |-> js, ret |-> -1]
    ELSE IF js[1].context = "suspended"
         THEN [js |-> <<[js[1] EXCEPT !.resuming = TRUE, !.then_pending = TRUE]>>,
               ret |-> 0]
         ELSE [js |-> js, ret |-> 0]

\* context.suspend() takes effect at once in the model, and a resume() it
\* overtakes is taken not to settle
js_audio_suspend(js) ==
    IF js = NULL THEN [js |-> js, ret |-> -1]
    ELSE [js |-> <<[js[1] EXCEPT !.context = "suspended", !.suspended = TRUE,
                                 !.resuming = FALSE, !.then_pending = FALSE]>>,
          ret |-> 0]

js_audio_get_state(js) ==
    IF js = NULL THEN 0
    ELSE IF js[1].context = "running" THEN 2
    ELSE IF js[1].context = "suspended" THEN 1
    ELSE 0

js_audio_set_volume(js, left, right) ==
    IF js # NULL /\ js[1].gainNode
    THEN <<[js[1] EXCEPT !.gain = Avg(left, right)]>>
    ELSE js

js_audio_autoplay_allowed(js) ==
    IF js = NULL THEN 0
    ELSE IF js[1].context = "running" THEN 1 ELSE 0

\* faulty variant: the context is not closed and window._wasmAudio is kept
js_audio_shutdown_keep(js) == js

js_audio_shutdown(js) == NULL

-----------------------------------------------------------------------------
(* The output path: the emulated device writes, the host's render callback  *)
(* pulls.                                                                   *)

\* wasm_audio_write and wasm_audio_fill_buffer get 0 .. MaxFrames frames per call
MaxFrames == 3
\* wasm_write gets 0 .. MaxDrvFrames frames per call
MaxDrvFrames == 1
\* the render callback is followed until the underrun counter reaches this
MaxUnderruns == 2
\* wasm_audio_read is called for 0 .. MaxInSamples floats
MaxInSamples == 3

ChannelCounts == {1, 2}
SampleBits == {8, 16}

\* the ghost sample counts start over when wasm_audio_init made a new session
Restart(count, state) == IF state = wasm_audio_state THEN count ELSE 0

\* the call of js_audio_init inside wasm_audio_init, which is skipped when a
\* session is already initialised
InitHost(channels, use_worklet, js_ret, partial) ==
    IF wasm_audio_state # NULL /\ wasm_audio_state[1].initialized
    THEN [js |-> js_wasmAudio, ret |-> 0]
    ELSE js_audio_init(js_wasmAudio, user_gesture, channels, use_worklet, js_ret, partial)

\* the script processor exists and its context is running: onaudioprocess fires
Rendering ==
    /\ js_wasmAudio # NULL
    /\ js_wasmAudio[1].processor
    /\ js_wasmAudio[1].context = "running"

\* wasm_audio_init called by the embedder with a configuration whose
\* backend is AUDIO_WORKLET (use_worklet) or SCRIPT_PROCESSOR
AudioInitBackend(channels, use_worklet, js_ret) ==
    /\ \E partial \in BOOLEAN :
       \E jsr \in {InitHost(channels, use_worklet, js_ret, partial)} :
       \E res \in {wasm_audio_init(wasm_audio_state, channels, jsr.ret)} :
          /\ wasm_audio_state' = res.state
          /\ js_wasmAudio' = jsr.js
          /\ lastRet' = res.ret
          /\ out_accepted' = Restart(out_accepted, res.state)
          /\ in_accepted' = Restart(in_accepted, res.state)
          /\ configured' = IF res.state # wasm_audio_state
                           THEN [configured EXCEPT !.audio = <<Flt(1), Flt(1)>>,
                                                   !.audio_muted = FALSE]
                           ELSE configured
    /\ lastOp' = "wasm_audio_init"
    /\ lastReq' = channels
    /\ UNCHANGED <<user_gesture, pre_interrupt, heard, waudVars, wasm_audio_temp_buffer, wasm_audio_temp_buffer_size, hw_out, hw_in,
                   js_inputNode, ringVars, scenario, uiVars, spscVars>>

\* wasm_audio_init called with the script-processor backend (the default
\* configuration, and the one wasm_init_out and wasm_init_in pass)
AudioInit(channels, js_ret) == AudioInitBackend(channels, FALSE, js_ret)

\* wasm_init_out: the session is opened with the voice's channel count (a
\* failure of wasm_audio_init is ignored), the voice keeps its format
InitOut(nchannels, bits, js_ret) ==
    /\ \E partial \in BOOLEAN :
       \E jsr \in {InitHost(nchannels, FALSE, js_ret, partial)} :
       \E res \in {wasm_audio_init(wasm_audio_state, nchannels, jsr.ret)} :
          /\ wasm_audio_state' = res.state
          /\ js_wasmAudio' = jsr.js
          /\ out_accepted' = Restart(out_accepted, res.state)
          /\ in_accepted' = Restart(in_accepted, res.state)
          /\ configured' = IF res.state # wasm_audio_state
                           THEN [configured EXCEPT !.audio = <<Flt(1), Flt(1)>>,
                                                   !.audio_muted = FALSE]
                           ELSE configured
    /\ hw_out' = <<[nchannels |-> nchannels, bits |-> bits]>>
    /\ lastOp' = "wasm_init_out"
    /\ lastReq' = nchannels
    /\ lastRet' = 0
    /\ UNCHANGED <<user_gesture, pre_interrupt, heard, waudVars, wasm_audio_temp_buffer,
                   wasm_audio_temp_buffer_size, hw_in,
                   js_inputNode, ringVars, scenario, uiVars, spscVars>>

\* wasm_audio_shutdown (also reached from wasm_audio_drv_fini).  The context
\* is closed without its processor being disconnected: lastReq records
\* whether a processor of a running context was left behind, whose callback
\* can still fire once (LateRender) before close() takes effect
AudioShutdown ==
    /\ IF wasm_audio_state = NULL
       THEN UNCHANGED <<wasm_audio_state, wasm_audio_temp_buffer, js_inputNode, js_wasmAudio>>
       ELSE /\ wasm_audio_state' = NULL
            /\ wasm_audio_temp_buffer' = NULL
            /\ js_inputNode' = FALSE
            /\ js_wasmAudio' = js_audio_shutdown(js_wasmAudio)
    /\ out_accepted' = 0
    /\ in_accepted' = 0
    /\ lastOp' = "wasm_audio_shutdown"
    /\ lastReq' = IF wasm_audio_state # NULL /\ Rendering THEN 1 ELSE 0
    /\ lastRet' = 0
    /\ UNCHANGED <<user_gesture, pre_interrupt, heard, configured, waudVars, wasm_audio_temp_buffer_size,
                   hw_out, hw_in, ringVars, scenario, uiVars, spscVars>>

\* the interleaved int16_t frames the emulated device offers: a constant
\* non-zero signal (what a ring does with distinct samples is SpecRing's matter)
OutOffer(frames, nchannels) == [i \in 1..(frames * nchannels) |-> 1]

\* wasm_audio_write called with samples frames of float data
AudioWrite(samples) ==
    /\ LET channels == IF wasm_audio_state = NULL THEN 1
                       ELSE wasm_audio_state[1].config.channels
           pcm  == OutOffer(samples, channels)
           data == [i \in 1..Len(pcm) |-> i16_to_float(pcm[i])]
       IN  \E res \in {wasm_audio_write(wasm_audio_state, data, samples)} :
              /\ wasm_audio_state' = res.state
              /\ out_accepted' = out_accepted + res.written
              /\ lastRet' \in Returned(wasm_audio_state, res.ret)
    /\ lastOp' = "wasm_audio_write"
    /\ lastReq' = samples
    /\ UNCHANGED <<ctlVars, waudVars, wasm_audio_temp_buffer, wasm_audio_temp_buffer_size, hw_out, hw_in,
                   js_inputNode, in_accepted, ringVars, scenario, uiVars, spscVars>>

\* wasm_write called by the mixer with frames whole frames; the rate control
\* lets rate_frames of them count as consumed
WasmWrite(frames, rate_frames) ==
    /\ hw_out # NULL
    /\ rate_frames <= frames
    /\ LET hw  == hw_out[1]
           bpf == hw.nchannels * (hw.bits \div 8)
       IN  \E res \in {wasm_write(wasm_audio_state, wasm_audio_temp_buffer,
                                  wasm_audio_temp_buffer_size, hw,
                                  OutOffer(frames, hw.nchannels),
                                  frames * bpf, rate_frames * bpf)} :
              /\ wasm_audio_state' = res.state
              /\ wasm_audio_temp_buffer' = res.temp
              /\ wasm_audio_temp_buffer_size' = res.temp_size
              /\ out_accepted' = out_accepted + res.written
              /\ lastRet' = res.ret
    /\ lastOp' = "wasm_write"
    /\ lastReq' = frames
    /\ UNCHANGED <<ctlVars, waudVars, hw_out, hw_in, js_inputNode, in_accepted, ringVars, scenario, uiVars, spscVars>>

\* the user clicks or presses a key on the page for the first time
UserGesture ==
    /\ ~user_gesture
    /\ user_gesture' = TRUE
    /\ lastOp' = "user_gesture"
    /\ lastReq' = 0
    /\ lastRet' = 0
    /\ UNCHANGED <<js_wasmAudio, pre_interrupt, heard, configured, waudVars, sessVars, ringVars,
                   scenario, uiVars, spscVars>>

\* what one render block sends past the gain node: samples * channels floats
\* read from the base of the array wasm_audio_get_output_buffer returns
\* (silence when it returns NULL), each multiplied by the gain
RenderBlock(p, js, samples) ==
    IF p = NULL
    THEN IF samples > 0 THEN {ZeroF} ELSE {}
    ELSE LET buffer == p[1].output_ring.buffer
             at(j)  == IF j \in Slots THEN buffer[j] ELSE Indeterminate
         IN  {Mul(at(j), js.gain) : j \in 0..(samples * js.channels - 1)}

\* the render callback of js_audio_init: it calls wasm_audio_fill_buffer
\* with the block length and then copies from wasm_audio_get_output_buffer
FillBuffer(samples) ==
    /\ Rendering
    /\ wasm_audio_state # NULL
    /\ \E st \in {wasm_audio_fill_buffer(wasm_audio_state, samples)} :
          /\ st[1].info.underruns <= MaxUnderruns
          /\ wasm_audio_state' = st
    /\ heard' = RenderBlock(wasm_audio_state, js_wasmAudio[1], samples)
    /\ lastOp' = "wasm_audio_fill_buffer"
    /\ lastReq' = samples
    /\ lastRet' = 0
    /\ UNCHANGED <<js_wasmAudio, user_gesture, pre_interrupt, configured, waudVars, wasm_audio_temp_buffer, wasm_audio_temp_buffer_size, hw_out, hw_in,
                   js_inputNode, out_accepted, in_accepted, ringVars, scenario, uiVars, spscVars>>

\* an onaudioprocess event of the context that wasm_audio_shutdown has just
\* closed: wasm_audio_fill_buffer and wasm_audio_get_output_buffer are called
\* as in FillBuffer, on whatever the session pointer now is
LateRender ==
    /\ lastOp = "wasm_audio_shutdown"
    /\ lastReq = 1
    /\ wasm_audio_state' = wasm_audio_fill_buffer(wasm_audio_state, 1)
    /\ heard' = RenderBlock(wasm_audio_state, [gain |-> Flt(1), channels |-> 2], 1)
    /\ lastOp' = "late_onaudioprocess"
    /\ lastReq' = 1
    /\ lastRet' = 0
    /\ UNCHANGED <<js_wasmAudio, user_gesture, pre_interrupt, configured, waudVars,
                   wasm_audio_temp_buffer, wasm_audio_temp_buffer_size, hw_out, hw_in,
                   js_inputNode, out_accepted, in_accepted, ringVars, scenario, uiVars, spscVars>>

NextOut ==
    \/ UserGesture
    \/ \E channels \in ChannelCounts, js_ret \in {0, -1} : AudioInit(channels, js_ret)
    \/ AudioShutdown
    \/ \E samples \in 0..MaxFrames : AudioWrite(samples)
    \/ \E samples \in 0..MaxFrames : FillBuffer(samples)

SpecOut == Init /\ [][NextOut]_vars

\* the output voice of the QEMU driver on top of the session
NextDrvOut ==
    \/ UserGesture
    \/ \E nchannels \in ChannelCounts, bits \in SampleBits, js_ret \in {0, -1} :
          InitOut(nchannels, bits, js_ret)
    \/ AudioShutdown
    \/ \E frames \in 0..MaxDrvFrames, rate_frames \in 0..MaxDrvFrames :
          WasmWrite(frames, rate_frames)

SpecDrvOut == Init /\ [][NextDrvOut]_vars

\* both ways into the output ring
NextOutAll == NextOut \/ NextDrvOut

SpecOutAll == Init /\ [][NextOutAll]_vars

\* the render callback keeps being invoked and the device keeps writing
SpecOutFair ==
    /\ Init
    /\ [][NextOut]_vars
    /\ WF_vars(\E samples \in 1..MaxFrames : FillBuffer(samples))
    /\ WF_vars(\E samples \in 1..MaxFrames : AudioWrite(samples))

-----------------------------------------------------------------------------
(* The input path: the host's capture callback pushes, the emulated device *)
(* reads.                                                                   *)

\* wasm_audio_request_input asks for the microphone; the capture callback
\* gets connected when window._wasmAudio exists and the user grants access
RequestInput(granted) ==
    /\ js_inputNode' = (js_inputNode \/ (js_wasmAudio # NULL /\ granted))
    /\ lastOp' = "wasm_audio_request_input"
    /\ lastReq' = 0
    /\ lastRet' = IF js_wasmAudio # NULL THEN 0 ELSE -1
    /\ UNCHANGED <<ctlVars, waudVars, wasm_audio_state, wasm_audio_temp_buffer, wasm_audio_temp_buffer_size,
                   hw_out, hw_in, out_accepted, in_accepted, ringVars, scenario, uiVars, spscVars>>

\* wasm_init_in: the voice keeps its format and calls wasm_audio_request_input
InitIn(nchannels, bits, granted) ==
    /\ hw_in' = <<[nchannels |-> nchannels, bits |-> bits]>>
    /\ js_inputNode' = (js_inputNode \/ (js_wasmAudio # NULL /\ granted))
    /\ lastOp' = "wasm_init_in"
    /\ lastReq' = nchannels
    /\ lastRet' = 0
    /\ UNCHANGED <<ctlVars, waudVars, wasm_audio_state, wasm_audio_temp_buffer, wasm_audio_temp_buffer_size,
                   hw_out, out_accepted, in_accepted, ringVars, scenario, uiVars, spscVars>>

\* the capture callback of js_audio_request_input: the block is copied to the
\* array wasm_audio_get_input_buffer returns (what lies past its end is not
\* part of the array), then wasm_audio_push_input(input.length) is called
HostInput ==
    /\ js_inputNode
    /\ js_wasmAudio # NULL
    /\ js_wasmAudio[1].context = "running"
    /\ wasm_audio_state # NULL
    /\ wasm_audio_state[1].info.samples_captured + InputBlock
          <= WASM_AUDIO_RING_SIZE + ExtraSamples
    /\ LET got_buf == wasm_audio_get_input_buffer(wasm_audio_temp_buffer,
                                                  wasm_audio_temp_buffer_size)
           staged  == [i \in 1..Len(got_buf.temp) |->
                          IF i <= InputBlock THEN Flt(in_accepted + i)
                          ELSE got_buf.temp[i]]
       IN  \E res \in {wasm_audio_push_input(wasm_audio_state, staged, InputBlock)} :
              /\ wasm_audio_state' = res.state
              /\ wasm_audio_temp_buffer' = staged
              /\ wasm_audio_temp_buffer_size' = got_buf.temp_size
              /\ in_accepted' = in_accepted + res.written
              /\ lastRet' = res.written
    /\ lastOp' = "wasm_audio_push_input"
    /\ lastReq' = InputBlock
    /\ UNCHANGED <<ctlVars, waudVars, hw_out, hw_in, js_inputNode, out_accepted, ringVars, scenario, uiVars, spscVars>>

\* wasm_audio_read called for samples floats
AudioRead(samples) ==
    /\ \E res \in {wasm_audio_read(wasm_audio_state, TRUE, samples)} :
          /\ wasm_audio_state' = res.state
          /\ lastRet' = res.ret
    /\ lastOp' = "wasm_audio_read"
    /\ lastReq' = samples
    /\ UNCHANGED <<ctlVars, waudVars, wasm_audio_temp_buffer, wasm_audio_temp_buffer_size, hw_out, hw_in,
                   js_inputNode, out_accepted, in_accepted, ringVars, scenario, uiVars, spscVars>>

\* wasm_read called by the mixer for frames whole frames; the rate control
\* lets rate_frames of them be due
WasmRead(frames, rate_frames) ==
    /\ hw_in # NULL
    /\ rate_frames <= frames
    /\ LET hw  == hw_in[1]
           bpf == hw.nchannels * (hw.bits \div 8)
       IN  \E res \in {wasm_read(wasm_audio_state, wasm_audio_temp_buffer,
                                 wasm_audio_temp_buffer_size, hw,
                                 frames * bpf, rate_frames * bpf)} :
              /\ wasm_audio_state' = res.state
              /\ wasm_audio_temp_buffer' = res.temp
              /\ wasm_audio_temp_buffer_size' = res.temp_size
              /\ lastRet' = res.ret
    /\ lastOp' = "wasm_read"
    /\ lastReq' = frames
    /\ UNCHANGED <<ctlVars, waudVars, hw_out, hw_in, js_inputNode, out_accepted, in_accepted,
                   ringVars, scenario, uiVars, spscVars>>

NextIn ==
    \/ UserGesture
    \/ \E channels \in ChannelCounts, js_ret \in {0, -1} : AudioInit(channels, js_ret)
    \/ AudioShutdown
    \/ \E granted \in BOOLEAN : RequestInput(granted)
    \/ HostInput
    \/ \E samples \in 0..MaxInSamples : AudioRead(samples)

SpecIn == Init /\ [][NextIn]_vars

\* the input voice of the QEMU driver on top of the session
NextDrvIn ==
    \/ UserGesture
    \/ \E channels \in ChannelCounts, js_ret \in {0, -1} : AudioInit(channels, js_ret)
    \/ AudioShutdown
    \/ \E nchannels \in ChannelCounts, bits \in SampleBits, granted \in BOOLEAN :
          InitIn(nchannels, bits, granted)
    \/ HostInput
    \/ \E frames \in 0..MaxDrvFrames, rate_frames \in 0..MaxDrvFrames :
          WasmRead(frames, rate_frames)

SpecDrvIn == Init /\ [][NextDrvIn]_vars

-----------------------------------------------------------------------------
(* The control plane of wasmaudio.c: lifecycle, interruption, gain.         *)

\* faulty variant: the state field is not refreshed from the context
wasm_audio_get_info_stale(p, js) == p

wasm_audio_get_info(p, js) ==
    IF p = NULL THEN p
    ELSE <<[p[1] EXCEPT !.info.state = js_audio_get_state(js)]>>

wasm_audio_resume(js) == js_audio_resume(js)

wasm_audio_suspend(js) == js_audio_suspend(js)

wasm_audio_get_free(p) ==
    IF p = NULL THEN 0
    ELSE UDiv(ring_available_write(p[1].output_ring), p[1].config.channels)

\* faulty variant: without a session the volume still goes to the gain node
wasm_audio_set_volume_unguarded(p, js, left, right) ==
    IF p = NULL THEN [state |-> p, js |-> js_audio_set_volume(js, left, right)]
    ELSE [state |-> <<[p[1] EXCEPT !.volume_left = left, !.volume_right = right]>>,
          js    |-> IF ~p[1].muted THEN js_audio_set_volume(js, left, right) ELSE js]

wasm_audio_set_volume(p, js, left, right) ==
    IF p = NULL THEN [state |-> p, js |-> js]
    ELSE [state |-> <<[p[1] EXCEPT !.volume_left = left, !.volume_right = right]>>,
          js    |-> IF ~p[1].muted THEN js_audio_set_volume(js, left, right) ELSE js]

\* faulty variant: muting is done by storing volume 0
wasm_audio_set_mute_zeroing(p, js, mute) ==
    IF p = NULL THEN [state |-> p, js |-> js]
    ELSE [state |-> <<[p[1] EXCEPT !.muted = mute,
                                   !.volume_left = IF mute THEN ZeroF ELSE @,
                                   !.volume_right = IF mute THEN ZeroF ELSE @]>>,
          js    |-> IF mute THEN js_audio_set_volume(js, ZeroF, ZeroF)
                    ELSE js_audio_set_volume(js, p[1].volume_left, p[1].volume_right)]

wasm_audio_set_mute(p, js, mute) ==
    IF p = NULL THEN [state |-> p, js |-> js]
    ELSE [state |-> <<[p[1] EXCEPT !.muted = mute]>>,
          js    |-> IF mute THEN js_audio_set_volume(js, ZeroF, ZeroF)
                    ELSE js_audio_set_volume(js, p[1].volume_left, p[1].volume_right)]

wasm_audio_get_available(p) ==
    IF p = NULL THEN 0 ELSE ring_available_read(p[1].input_ring)

wasm_audio_set_input_gain(p, gain) ==
    IF p # NULL THEN <<[p[1] EXCEPT !.input_gain = gain]>> ELSE p

wasm_audio_is_interrupted(p) ==
    IF p = NULL THEN FALSE ELSE p[1].interrupted

\* faulty variant: every begin event is also counted as an overrun
wasm_audio_handle_interruption_counting(p, began) ==
    IF p = NULL THEN p
    ELSE <<[p[1] EXCEPT !.interrupted = began,
                        !.info.overruns = IF began THEN (@ + 1) % 4 ELSE @,
                        !.info.state = IF began THEN WASM_AUDIO_STATE_INTERRUPTED
                                       ELSE WASM_AUDIO_STATE_SUSPENDED]>>

\* faulty variant: a begin event discards what the input ring holds
wasm_audio_handle_interruption_flushing(p, began) ==
    IF p = NULL THEN p
    ELSE <<[p[1] EXCEPT !.interrupted = began,
                        !.input_ring.read_pos = IF began THEN p[1].input_ring.write_pos
                                                ELSE @,
                        !.info.state = IF began THEN WASM_AUDIO_STATE_INTERRUPTED
                                       ELSE WASM_AUDIO_STATE_SUSPENDED]>>

wasm_audio_handle_interruption(p, began) ==
    IF p = NULL THEN p
    ELSE <<[p[1] EXCEPT !.interrupted = began,
                        !.info.state = IF began THEN WASM_AUDIO_STATE_INTERRUPTED
                                       ELSE WASM_AUDIO_STATE_SUSPENDED]>>

wasm_audio_autoplay_allowed(js) == js_audio_autoplay_allowed(js) # 0

\* what a control call leaves alone
ctlFrame == <<wasm_audio_temp_buffer, wasm_audio_temp_buffer_size, hw_out, hw_in,
              js_inputNode, out_accepted, in_accepted, user_gesture, heard,
              waudVars, ringVars, scenario, uiVars, spscVars>>

\* the volumes the control collaborator sets
Gains == {ZeroF, <<1, 2>>, Flt(1)}

Bit(b) == IF b THEN 1 ELSE 0

Resume ==
    /\ \E res \in {wasm_audio_resume(js_wasmAudio)} :
          /\ js_wasmAudio' = res.js
          /\ lastRet' = res.ret
    /\ lastOp' = "wasm_audio_resume"
    /\ lastReq' = 0
    /\ UNCHANGED <<wasm_audio_state, pre_interrupt, configured, ctlFrame>>

Suspend ==
    /\ \E res \in {wasm_audio_suspend(js_wasmAudio)} :
          /\ js_wasmAudio' = res.js
          /\ lastRet' = res.ret
    /\ lastOp' = "wasm_audio_suspend"
    /\ lastReq' = 0
    /\ UNCHANGED <<wasm_audio_state, pre_interrupt, configured, ctlFrame>>

\* the promise of context.resume() settles: the browser starts a context
\* only once the page has had a user gesture; the then-callback of
\* js_audio_resume clears the suspended flag
ResumeSettles ==
    /\ js_wasmAudio # NULL
    /\ js_wasmAudio[1].resuming
    /\ user_gesture
    /\ js_wasmAudio' = <<[js_wasmAudio[1] EXCEPT
                            !.context = "running",
                            !.resuming = FALSE,
                            !.then_pending = FALSE,
                            !.suspended = IF js_wasmAudio[1].then_pending THEN FALSE ELSE @]>>
    /\ lastOp' = "resume_settles"
    /\ lastReq' = 0
    /\ lastRet' = 0
    /\ UNCHANGED <<wasm_audio_state, pre_interrupt, configured, ctlFrame>>

\* the visibilitychange listener of js_audio_init
VisibilityChange(hidden) ==
    /\ js_wasmAudio # NULL
    /\ js_wasmAudio[1].gainNode
    /\ js_wasmAudio' =
          IF hidden
          THEN IF js_wasmAudio[1].context = "running"
               THEN <<[js_wasmAudio[1] EXCEPT !.context = "suspended",
                                              !.resuming = FALSE,
                                              !.then_pending = FALSE]>>
               ELSE js_wasmAudio
          ELSE IF js_wasmAudio[1].context = "suspended"
               THEN <<[js_wasmAudio[1] EXCEPT !.resuming = TRUE]>>
               ELSE js_wasmAudio
    /\ lastOp' = "visibilitychange"
    /\ lastReq' = Bit(hidden)
    /\ lastRet' = 0
    /\ UNCHANGED <<wasm_audio_state, pre_interrupt, configured, ctlFrame>>

\* lastRet is the state the returned info holds (-1 for a NULL return)
GetInfo ==
    /\ wasm_audio_state' = wasm_audio_get_info(wasm_audio_state, js_wasmAudio)
    /\ lastOp' = "wasm_audio_get_info"
    /\ lastReq' = 0
    /\ lastRet' = IF wasm_audio_state = NULL THEN -1
                  ELSE js_audio_get_state(js_wasmAudio)
    /\ UNCHANGED <<js_wasmAudio, pre_interrupt, configured, ctlFrame>>

GetFree ==
    /\ lastOp' = "wasm_audio_get_free"
    /\ lastReq' = 0
    /\ lastRet' \in Returned(wasm_audio_state, wasm_audio_get_free(wasm_audio_state))
    /\ UNCHANGED <<wasm_audio_state, js_wasmAudio, pre_interrupt, configured, ctlFrame>>

GetAvailable ==
    /\ lastOp' = "wasm_audio_get_available"
    /\ lastReq' = 0
    /\ lastRet' = wasm_audio_get_available(wasm_audio_state)
    /\ UNCHANGED <<wasm_audio_state, js_wasmAudio, pre_interrupt, configured, ctlFrame>>

SetVolume(left, right) ==
    /\ \E res \in {wasm_audio_set_volume(wasm_audio_state, js_wasmAudio, left, right)} :
          /\ wasm_audio_state' = res.state
          /\ js_wasmAudio' = res.js
    /\ configured' = IF wasm_audio_state = NULL THEN configured
                     ELSE [configured EXCEPT !.audio = <<left, right>>,
                                             !.audio_muted = wasm_audio_state[1].muted]
    /\ lastOp' = "wasm_audio_set_volume"
    /\ lastReq' = 0
    /\ lastRet' = 0
    /\ UNCHANGED <<pre_interrupt, ctlFrame>>

SetMute(mute) ==
    /\ \E res \in {wasm_audio_set_mute(wasm_audio_state, js_wasmAudio, mute)} :
          /\ wasm_audio_state' = res.state
          /\ js_wasmAudio' = res.js
    /\ lastOp' = "wasm_audio_set_mute"
    /\ lastReq' = Bit(mute)
    /\ lastRet' = 0
    /\ UNCHANGED <<pre_interrupt, configured, ctlFrame>>

SetInputGain(gain) ==
    /\ wasm_audio_state' = wasm_audio_set_input_gain(wasm_audio_state, gain)
    /\ lastOp' = "wasm_audio_set_input_gain"
    /\ lastReq' = 0
    /\ lastRet' = 0
    /\ UNCHANGED <<js_wasmAudio, pre_interrupt, configured, ctlFrame>>

IsInterrupted ==
    /\ lastOp' = "wasm_audio_is_interrupted"
    /\ lastReq' = 0
    /\ lastRet' = Bit(wasm_audio_is_interrupted(wasm_audio_state))
    /\ UNCHANGED <<wasm_audio_state, js_wasmAudio, pre_interrupt, configured, ctlFrame>>

\* called by the embedder, and by the pause / resume listeners on iOS;
\* pre_interrupt records the state an interruption found
HandleInterruption(began) ==
    /\ wasm_audio_state' = wasm_audio_handle_interruption(wasm_audio_state, began)
    /\ pre_interrupt' =
          IF wasm_audio_state = NULL THEN pre_interrupt
          ELSE IF ~began THEN [pre_interrupt EXCEPT !.begins = 0]
          ELSE IF wasm_audio_state[1].info.state # WASM_AUDIO_STATE_INTERRUPTED
          THEN [state |-> wasm_audio_state[1].info.state, begins |-> 1]
          ELSE [pre_interrupt EXCEPT !.begins = Min(@ + 1, 2)]
    /\ lastOp' = "wasm_audio_handle_interruption"
    /\ lastReq' = Bit(began)
    /\ lastRet' = 0
    /\ UNCHANGED <<js_wasmAudio, configured, ctlFrame>>

AutoplayAllowed ==
    /\ lastOp' = "wasm_audio_autoplay_allowed"
    /\ lastReq' = 0
    /\ lastRet' = Bit(wasm_audio_autoplay_allowed(js_wasmAudio))
    /\ UNCHANGED <<wasm_audio_state, js_wasmAudio, pre_interrupt, configured, ctlFrame>>

\* the lifecycle of a session with its observers
NextCtl ==
    \/ UserGesture
    \/ \E channels \in ChannelCounts, js_ret \in {0, -1} : AudioInit(channels, js_ret)
    \/ AudioShutdown
    \/ Resume
    \/ Suspend
    \/ ResumeSettles
    \/ \E hidden \in BOOLEAN : VisibilityChange(hidden)
    \/ GetInfo
    \/ IsInterrupted
    \/ AutoplayAllowed
    \/ \E began \in BOOLEAN : HandleInterruption(began)

SpecCtl == Init /\ [][NextCtl]_vars

\* the data path between the events that drive the session state; to keep
\* the two rings from multiplying, a stereo session is driven through its
\* output path and a mono session through its input path (with no session
\* both are called)
OutputSession ==
    IF wasm_audio_state = NULL THEN TRUE
    ELSE wasm_audio_state[1].config.channels = 2

InputSession ==
    IF wasm_audio_state = NULL THEN TRUE
    ELSE wasm_audio_state[1].config.channels = 1

NextPlane ==
    \/ UserGesture
    \/ \E channels \in ChannelCounts : AudioInit(channels, 0)
    \/ AudioShutdown
    \/ GetInfo
    \/ \E began \in BOOLEAN : HandleInterruption(began)
    \/ \E samples \in 1..MaxFrames : OutputSession /\ AudioWrite(samples)
    \/ OutputSession /\ FillBuffer(1)
    \/ OutputSession /\ GetFree
    \/ InputSession /\ RequestInput(TRUE)
    \/ InputSession /\ HostInput
    \/ InputSession /\ AudioRead(MaxInSamples)
    \/ InputSession /\ GetAvailable

SpecPlane == Init /\ [][NextPlane]_vars

\* a stream in progress (samples in the rings) while the control plane is
\* used; stereo sessions carry output, mono sessions input, as in NextPlane
NextStream ==
    \/ UserGesture
    \/ \E channels \in ChannelCounts : AudioInit(channels, 0)
    \/ OutputSession /\ AudioWrite(MaxFrames)
    \/ \E granted \in BOOLEAN : InputSession /\ RequestInput(granted)
    \/ InputSession /\ HostInput
    \/ InputSession /\ AudioRead(MaxInSamples)
    \/ Resume
    \/ Suspend
    \/ ResumeSettles
    \/ \E began \in BOOLEAN : HandleInterruption(began)
    \/ SetVolume(<<1, 2>>, <<1, 2>>)
    \/ \E mute \in BOOLEAN : SetMute(mute)
    \/ SetInputGain(<<1, 2>>)

SpecStream == Init /\ [][NextStream]_vars

\* a pending resume settles, and the state is looked at again and again
SpecCtlFair ==
    /\ Init
    /\ [][NextCtl]_vars
    /\ WF_vars(ResumeSettles)
    /\ WF_vars(GetInfo)

-----------------------------------------------------------------------------
(* The QEMU audio driver of src/audio/wasmaud.c: one output voice whose     *)
(* byte ring is shared with the page.  The C side keeps the write cursor    *)
(* (ring_write_pos), the page keeps Module._audioRingRead and               *)
(* Module._audioRingWrite and drains the ring from a ScriptProcessorNode.   *)
(* The render block of the source (2048 frames of 4 bytes) is scaled to     *)
(* BlockFrames; the ring keeps its proportion to it (4 * 4096 bytes, two    *)
(* blocks).  Names that wasmaud.c shares with wasmaudio.c carry the prefix  *)
(* wasmaud_.                                                                *)

\* bytes of one frame: WASM_AUDIO_CHANNELS (2) samples of int16_t
FrameBytes == 4

\* the margin wasm_audio_js_get_free keeps
FreeMargin == 4

\* WASM_AUDIO_BUFFER_SIZE: twice the render block (4096 and 2048 in the source)
wasmaud_BUFFER_SIZE == 2 * BlockFrames

\* WASM_AUDIO_RING_SIZE, in bytes
wasmaud_RING_SIZE == wasmaud_BUFFER_SIZE * 4

\* the int16_t slots of the ring (HEAP16 indices relative to the ring)
Slots16 == 0..(wasmaud_RING_SIZE \div 2 - 1)

\* the int16_t the device plays, the same in every sample
Tone == 16384

\* the addresses g_malloc0 may return for the ring (0 is the null pointer)
Addresses == {1, 2}

\* wasm_audio_js_init; ok is FALSE when the page cannot make an AudioContext
wasm_audio_js_init(M, gesture, ok) ==
    IF M # NULL THEN [M |-> M, ret |-> 1]
    ELSE IF ~ok THEN [M |-> NULL, ret |-> 0]
    ELSE [M |-> <<[context    |-> IF gesture THEN "running" ELSE "suspended",
                   resuming   |-> FALSE,
                   gain       |-> Flt(1),
                   ringBuffer |-> 0,
                   ringSize   |-> 0,
                   ringRead   |-> 0,
                   ringWrite  |-> 0,
                   processor  |-> FALSE,
                   orphans    |-> 0]>>,
          ret |-> 1]

\* wasm_audio_js_resume, also the first statement of wasm_audio_js_start
wasm_audio_js_resume(M) ==
    IF M # NULL /\ M[1].context = "suspended"
    THEN <<[M[1] EXCEPT !.resuming = TRUE]>>
    ELSE M

\* wasm_audio_js_start; ok is FALSE when createScriptProcessor throws.  The
\* new node replaces Module._audioProcessor; a node that was there stays
\* connected to the gain node and is counted in orphans
wasm_audio_js_start(M, buffer_ptr, buffer_size, ok) ==
    IF M = NULL THEN [M |-> M, ret |-> 0]
    ELSE LET stored == [wasm_audio_js_resume(M)[1] EXCEPT
                           !.ringBuffer = buffer_ptr, !.ringSize = buffer_size]
         IN  IF ok THEN [M |-> <<[stored EXCEPT !.processor = TRUE,
                                                !.orphans = @ + Bit(stored.processor)]>>,
                         ret |-> 1]
             ELSE [M |-> <<stored>>, ret |-> 0]

\* faulty variant: the processor is left connected
wasm_audio_js_stop_connected(M) == M

wasm_audio_js_stop(M) ==
    IF M = NULL THEN M ELSE <<[M[1] EXCEPT !.processor = FALSE]>>

wasm_audio_js_set_volume(M, volume) ==
    IF M = NULL THEN M ELSE <<[M[1] EXCEPT !.gain = volume]>>

\* faulty variant: the producer is held to half of the ring
wasm_audio_js_get_free_halfring(M) ==
    IF M = NULL THEN 0
    ELSE IF M[1].ringBuffer = 0 THEN 0
    ELSE LET used == (M[1].ringWrite - M[1].ringRead + M[1].ringSize) % M[1].ringSize
         IN  M[1].ringSize \div 2 - used - FreeMargin

wasm_audio_js_get_free(M) ==
    IF M = NULL THEN 0
    ELSE IF M[1].ringBuffer = 0 THEN 0
    ELSE LET used == (M[1].ringWrite - M[1].ringRead + M[1].ringSize) % M[1].ringSize
         IN  M[1].ringSize - used - FreeMargin

wasm_audio_js_advance_write(M, bytes) ==
    IF M = NULL THEN M
    ELSE IF M[1].ringBuffer = 0 THEN M
    ELSE <<[M[1] EXCEPT !.ringWrite = (@ + bytes) % M[1].ringSize]>>

\* bytes the page can read, as onaudioprocess computes them
RingAvailable(M) ==
    (M[1].ringWrite - M[1].ringRead + M[1].ringSize) % M[1].ringSize

\* bytes one render block needs: samples * 4
BytesNeeded == BlockFrames * FrameBytes

\* onaudioprocess of wasm_audio_js_start for one block of BlockFrames frames:
\* silence on underrun, otherwise the int16 samples from the read cursor on,
\* each divided by 32768.0, and the read cursor moved by the block.  out is
\* the set of values played, block the int16 samples read, in the order
\* left, right of each frame
Render16(M, buffer) ==
    LET m == M[1]
        at(byte) == IF buffer # NULL /\ (byte \div 2) \in DOMAIN buffer[1]
                    THEN <<buffer[1][byte \div 2], 32768>>
                    ELSE Indeterminate
        pos(i)   == (m.ringRead + i * 4) % m.ringSize
    IN  IF RingAvailable(M) < BytesNeeded
        THEN [M |-> M, out |-> {ZeroF}, block |-> << >>]
        ELSE [M   |-> <<[m EXCEPT !.ringRead = (@ + BytesNeeded) % m.ringSize]>>,
              out |-> UNION {{at(pos(i)), at(pos(i) + 2)} : i \in 0..(BlockFrames - 1)},
              block |-> [k \in 1..(2 * BlockFrames) |->
                            at(pos((k - 1) \div 2) + 2 * ((k - 1) % 2))[1]]]

\* wasm_audio_set_volume of wasmaud.c
wasmaud_set_volume(st, M, volume) ==
    [state |-> [st EXCEPT !.volume = volume],
     M     |-> wasm_audio_js_set_volume(M, volume)]

\* wasm_audio_set_muted of wasmaud.c
wasmaud_set_muted(st, M, muted) ==
    [state |-> [st EXCEPT !.muted = (muted # 0)],
     M     |-> wasm_audio_js_set_volume(M, IF muted # 0 THEN ZeroF ELSE st.volume)]

\* wasm_volume_out: vol is the average of the two channel volumes already
\* divided by 255
wasmaud_volume_out(st, M, mute, vol) ==
    IF mute THEN wasmaud_set_muted(st, M, 1)
    ELSE wasmaud_set_volume([st EXCEPT !.volume = vol], M, vol)

\* wasm_write of wasmaud.c: buf holds len bytes as int16 samples;
\* rate_bytes is what audio_rate_get_bytes answers
wasmaud_write(voice, M, buf, len, rate_bytes) ==
    IF ~voice[1].enabled \/ voice[1].ring_buffer = NULL
    THEN [voice |-> voice, M |-> M, ret |-> rate_bytes]
    ELSE LET free_space == wasm_audio_js_get_free(M)
         IN  IF free_space <= 0 THEN [voice |-> voice, M |-> M, ret |-> 0]
             ELSE LET v == voice[1]
                      to_write == Min(len, free_space)
                      write_pos == v.ring_write_pos
                      src(slot) == (((slot * 2 - write_pos + v.ring_size) % v.ring_size) \div 2) + 1
                      copied == [slot \in DOMAIN v.ring_buffer[1] |->
                                   IF (slot * 2 - write_pos + v.ring_size) % v.ring_size < to_write
                                   THEN buf[src(slot)]
                                   ELSE v.ring_buffer[1][slot]]
                  IN  [voice |-> <<[v EXCEPT !.ring_buffer = <<copied>>,
                                            !.ring_write_pos = (write_pos + to_write) % v.ring_size]>>,
                       M     |-> wasm_audio_js_advance_write(M, to_write),
                       ret   |-> to_write]

\* what a call of the driver leaves alone
waudFrame == <<js_wasmAudio, pre_interrupt, sessVars, ringVars, scenario, uiVars, spscVars>>

\* wasm_audio_init of wasmaud.c, called once by the audio core
WaudInit(ok) ==
    /\ ~wasmaud_state.initialized
    /\ \E res \in {wasm_audio_js_init(Module, user_gesture, ok)} :
          /\ Module' = res.M
          /\ wasmaud_state' = [initialized |-> res.ret # 0,
                               volume |-> Flt(1), muted |-> FALSE]
          /\ lastRet' = res.ret
    /\ configured' = [configured EXCEPT !.waud = Flt(1), !.waud_muted = FALSE]
    /\ lastOp' = "wasmaud.wasm_audio_init"
    /\ lastReq' = 0
    /\ UNCHANGED <<wasmaud_voice, user_gesture, heard, waudFrame>>

\* wasm_audio_fini, called by the audio core after the voice is gone
WaudFini ==
    /\ wasmaud_state.initialized
    /\ wasmaud_voice = NULL
    /\ Module' = wasm_audio_js_stop(Module)
    /\ wasmaud_state' = [wasmaud_state EXCEPT !.initialized = FALSE]
    /\ lastOp' = "wasmaud.wasm_audio_fini"
    /\ lastReq' = 0
    /\ lastRet' = 0
    /\ UNCHANGED <<wasmaud_voice, user_gesture, heard, configured, waudFrame>>

\* wasm_init_out: the voice comes zeroed from the audio core
WaudInitOut ==
    /\ wasmaud_state.initialized
    /\ wasmaud_voice = NULL
    /\ \E ptr \in Addresses :
       wasmaud_voice' = <<[ring_buffer    |-> <<[j \in Slots16 |-> 0]>>,
                           ring_ptr       |-> ptr,
                           ring_size      |-> wasmaud_RING_SIZE,
                           ring_write_pos |-> 0,
                           enabled        |-> FALSE]>>
    /\ lastOp' = "wasmaud.wasm_init_out"
    /\ lastReq' = 0
    /\ lastRet' = 0
    /\ UNCHANGED <<wasmaud_state, Module, user_gesture, heard, configured, waudFrame>>

\* wasm_fini_out, after which the audio core frees the voice
WaudFiniOut ==
    /\ wasmaud_voice # NULL
    /\ Module' = wasm_audio_js_stop(Module)
    /\ wasmaud_voice' = NULL
    /\ lastOp' = "wasmaud.wasm_fini_out"
    /\ lastReq' = 0
    /\ lastRet' = 0
    /\ UNCHANGED <<wasmaud_state, user_gesture, heard, configured, waudFrame>>

\* the body of wasm_enable_out, which does not look at the voice's present
\* state
WaudEnableOutCall(enable, ok) ==
    /\ wasmaud_voice # NULL
    /\ wasmaud_voice' = <<[wasmaud_voice[1] EXCEPT !.enabled = enable]>>
    /\ Module' = IF enable
                 THEN wasm_audio_js_start(Module, wasmaud_voice[1].ring_ptr,
                                          wasmaud_voice[1].ring_size, ok).M
                 ELSE wasm_audio_js_stop(Module)
    /\ lastOp' = "wasmaud.wasm_enable_out"
    /\ lastReq' = Bit(enable)
    /\ lastRet' = 0
    /\ UNCHANGED <<wasmaud_state, user_gesture, heard, configured, waudFrame>>

\* wasm_enable_out, called by the audio core when the voice changes between
\* on and off; the result of wasm_audio_js_start is dropped
WaudEnableOut(enable, ok) ==
    /\ wasmaud_voice # NULL
    /\ wasmaud_voice[1].enabled # enable
    /\ WaudEnableOutCall(enable, ok)

\* wasm_write called by the mixer with frames whole frames of the tone
WaudWrite(frames, rate_frames) ==
    /\ wasmaud_voice # NULL
    /\ rate_frames <= frames
    /\ \E res \in {wasmaud_write(wasmaud_voice, Module,
                                 [i \in 1..(2 * frames) |-> Tone],
                                 frames * FrameBytes, rate_frames * FrameBytes)} :
          /\ wasmaud_voice' = res.voice
          /\ Module' = res.M
          /\ lastRet' = res.ret
    /\ lastOp' = "wasmaud.wasm_write"
    /\ lastReq' = frames * FrameBytes
    /\ UNCHANGED <<wasmaud_state, user_gesture, heard, configured, waudFrame>>

\* the ring that lives at an address: the voice's ring_buffer at its own
\* address, nothing (freed or never allocated storage) anywhere else
HeapAt(ptr) ==
    IF wasmaud_voice # NULL /\ wasmaud_voice[1].ring_ptr = ptr
    THEN wasmaud_voice[1].ring_buffer
    ELSE NULL

\* the processor is connected and its context is running: onaudioprocess fires
WaudRendering ==
    /\ Module # NULL
    /\ (Module[1].processor \/ Module[1].orphans > 0)
    /\ Module[1].context = "running"

\* one onaudioprocess callback; the block goes through the gain node
WaudRender ==
    /\ WaudRendering
    /\ \E res \in {Render16(Module, HeapAt(Module[1].ringBuffer))} :
          /\ Module' = res.M
          /\ heard' = {Mul(x, Module[1].gain) : x \in res.out}
          /\ lastRet' = IF res.M = Module THEN 0 ELSE BytesNeeded
    /\ lastOp' = "wasmaud.onaudioprocess"
    /\ lastReq' = BlockFrames
    /\ UNCHANGED <<wasmaud_state, wasmaud_voice, user_gesture, configured, waudFrame>>

\* wasm_audio_resume of wasmaud.c, exported to the page
WaudResume ==
    /\ Module' = wasm_audio_js_resume(Module)
    /\ lastOp' = "wasmaud.wasm_audio_resume"
    /\ lastReq' = 0
    /\ lastRet' = 0
    /\ UNCHANGED <<wasmaud_state, wasmaud_voice, user_gesture, heard, configured, waudFrame>>

\* the promise of context.resume() settles once the page has had a gesture
WaudResumeSettles ==
    /\ Module # NULL
    /\ Module[1].resuming
    /\ user_gesture
    /\ Module' = <<[Module[1] EXCEPT !.context = "running", !.resuming = FALSE]>>
    /\ lastOp' = "wasmaud.resume_settles"
    /\ lastReq' = 0
    /\ lastRet' = 0
    /\ UNCHANGED <<wasmaud_state, wasmaud_voice, user_gesture, heard, configured, waudFrame>>

\* wasm_audio_set_volume of wasmaud.c, exported to the page
WaudSetVolume(volume) ==
    /\ \E res \in {wasmaud_set_volume(wasmaud_state, Module, volume)} :
          /\ wasmaud_state' = res.state
          /\ Module' = res.M
    /\ configured' = [configured EXCEPT !.waud = volume,
                                        !.waud_muted = wasmaud_state.muted]
    /\ lastOp' = "wasmaud.wasm_audio_set_volume"
    /\ lastReq' = 0
    /\ lastRet' = 0
    /\ UNCHANGED <<wasmaud_voice, user_gesture, heard, waudFrame>>

\* wasm_audio_set_muted of wasmaud.c, exported to the page
WaudSetMuted(muted) ==
    /\ \E res \in {wasmaud_set_muted(wasmaud_state, Module, muted)} :
          /\ wasmaud_state' = res.state
          /\ Module' = res.M
    /\ lastOp' = "wasmaud.wasm_audio_set_muted"
    /\ lastReq' = muted
    /\ lastRet' = 0
    /\ UNCHANGED <<wasmaud_voice, user_gesture, heard, configured, waudFrame>>

\* wasm_volume_out, called by the audio core when the guest moves the mixer
WaudVolumeOut(mute, vol) ==
    /\ wasmaud_voice # NULL
    /\ \E res \in {wasmaud_volume_out(wasmaud_state, Module, mute, vol)} :
          /\ wasmaud_state' = res.state
          /\ Module' = res.M
    /\ configured' = IF mute THEN configured
                     ELSE [configured EXCEPT !.waud = vol,
                                             !.waud_muted = wasmaud_state.muted]
    /\ lastOp' = "wasmaud.wasm_volume_out"
    /\ lastReq' = Bit(mute)
    /\ lastRet' = 0
    /\ UNCHANGED <<wasmaud_voice, user_gesture, heard, waudFrame>>

\* the voice of wasmaud.c from wasm_audio_init to wasm_audio_fini
NextWaud ==
    \/ UserGesture
    \/ \E ok \in BOOLEAN : WaudInit(ok)
    \/ WaudFini
    \/ WaudInitOut
    \/ WaudFiniOut
    \/ \E enable \in BOOLEAN, ok \in BOOLEAN : WaudEnableOut(enable, ok)
    \/ \E frames \in 0..(wasmaud_BUFFER_SIZE + 1), rate_frames \in {0, 1} :
          WaudWrite(frames, rate_frames)
    \/ WaudRender
    \/ WaudResume
    \/ WaudResumeSettles

SpecWaud == Init /\ [][NextWaud]_vars

\* the render callback keeps being invoked while the context runs, the
\* context starts once it may, and the mixer keeps writing
SpecWaudFair ==
    /\ Init
    /\ [][NextWaud]_vars
    /\ WF_vars(WaudRender)
    /\ WF_vars(WaudResumeSettles)
    /\ WF_vars(\E frames \in 1..(wasmaud_BUFFER_SIZE + 1) : WaudWrite(frames, 0))

\* A build links one of the two drivers (both define wasm_audio_resume and
\* wasm_audio_set_volume), so the specifications that cover both run them
\* one after the other: wasmaudio.c while wasmaud.c has made no context,
\* wasmaud.c while wasmaudio.c has no session and no context.
AudioInUse == wasm_audio_state # NULL \/ js_wasmAudio # NULL

WaudInUse == Module # NULL

\* volume and mute of both drivers, without the data path
NextVol ==
    \/ \E channels \in ChannelCounts, js_ret \in {0, -1} :
          ~WaudInUse /\ AudioInit(channels, js_ret)
    \/ ~WaudInUse /\ AudioShutdown
    \/ \E left \in Gains, right \in Gains : ~WaudInUse /\ SetVolume(left, right)
    \/ \E mute \in BOOLEAN : ~WaudInUse /\ SetMute(mute)
    \/ \E ok \in BOOLEAN : ~AudioInUse /\ WaudInit(ok)
    \/ ~AudioInUse /\ WaudFini
    \/ ~AudioInUse /\ WaudInitOut
    \/ ~AudioInUse /\ WaudFiniOut
    \/ \E volume \in Gains : ~AudioInUse /\ WaudSetVolume(volume)
    \/ \E muted \in {0, 1} : ~AudioInUse /\ WaudSetMuted(muted)
    \/ \E mute \in BOOLEAN, vol \in Gains : ~AudioInUse /\ WaudVolumeOut(mute, vol)

SpecVol == Init /\ [][NextVol]_vars

\* each driver playing the device's tone while volume and mute are moved
NextMute ==
    \/ UserGesture
    \/ ~WaudInUse /\ AudioInit(2, 0)
    \/ ~WaudInUse /\ AudioShutdown
    \/ ~WaudInUse /\ AudioWrite(1)
    \/ ~WaudInUse /\ FillBuffer(1)
    \/ \E gain \in Gains : ~WaudInUse /\ SetVolume(gain, gain)
    \/ \E mute \in BOOLEAN : ~WaudInUse /\ SetMute(mute)
    \/ ~AudioInUse /\ WaudInit(TRUE)
    \/ ~AudioInUse /\ WaudInitOut
    \/ ~AudioInUse /\ WaudEnableOut(TRUE, TRUE)
    \/ ~AudioInUse /\ WaudWrite(BlockFrames, 0)
    \/ ~AudioInUse /\ WaudRender
    \/ \E volume \in Gains : ~AudioInUse /\ WaudSetVolume(volume)
    \/ \E muted \in {0, 1} : ~AudioInUse /\ WaudSetMuted(muted)

SpecMute == Init /\ [][NextMute]_vars

\* enable, write, render, disable, teardown and shutdown of each driver
NextTeardown ==
    \/ UserGesture
    \/ ~WaudInUse /\ AudioInit(2, 0)
    \/ ~WaudInUse /\ AudioWrite(1)
    \/ ~WaudInUse /\ FillBuffer(1)
    \/ ~WaudInUse /\ AudioShutdown
    \/ ~WaudInUse /\ LateRender
    \/ \E ok \in BOOLEAN : ~AudioInUse /\ WaudInit(ok)
    \/ ~AudioInUse /\ WaudInitOut
    \/ \E enable \in BOOLEAN, ok \in BOOLEAN : ~AudioInUse /\ WaudEnableOut(enable, ok)
    \/ ~AudioInUse /\ WaudWrite(BlockFrames, 0)
    \/ ~AudioInUse /\ WaudRender
    \/ ~AudioInUse /\ WaudResumeSettles
    \/ ~AudioInUse /\ WaudFiniOut
    \/ ~AudioInUse /\ WaudFini

SpecTeardown == Init /\ [][NextTeardown]_vars

-----------------------------------------------------------------------------
(* Properties of one ring under sequential calls (SpecRing) *)

\* samples written and not yet read, counted from the logs
Live == Len(accepted) - Len(got)

\* C1: FIFO.  For every sequence of interleaved ring_write / ring_read calls
\* with arbitrary chunk sizes, wrapping ones included, the number of samples
\* read never exceeds the number accepted, and the samples returned by the
\* reads, concatenated, are a prefix of the samples accepted by the writes.
C1_Fifo ==
    /\ Len(got) <= Len(accepted)
    /\ IsPrefix(got, accepted)

\* a read that wrapped past the end of the array, after more than one lap
C1_Witness ==
    /\ lastOp = "ring_read"
    /\ ring.read_pos > 0
    /\ ring.read_pos < lastRet
    /\ Len(got) > WASM_AUDIO_RING_SIZE

\* C2: occupancy.  Both cursors stay in [0, N-1]; the number of live samples
\* is (write - read) & (N-1), at most N-1; ring_available_write is (N-1)
\* minus ring_available_read.
C2_Occupancy ==
    /\ ring.read_pos \in Slots
    /\ ring.write_pos \in Slots
    /\ Live = (ring.write_pos - ring.read_pos) % WASM_AUDIO_RING_SIZE
    /\ Live <= WASM_AUDIO_RING_SIZE - 1
    /\ ring_available_read(ring) = Live
    /\ ring_available_write(ring) = (WASM_AUDIO_RING_SIZE - 1) - ring_available_read(ring)

\* a full ring whose live region wraps
C2_Witness ==
    /\ Live = WASM_AUDIO_RING_SIZE - 1
    /\ ring.write_pos < ring.read_pos

\* C3: full buffer.  On a ring holding N-1 samples every ring_write returns 0
\* and changes nothing; after a ring_read returned k >= 1 samples from a full
\* ring, a ring_write of m samples accepts min(m, k).  Along the scenario
\* write N-1, write 2, read 4, write 2 the calls return N-1, 0, 4 (the first
\* four samples written) and 2.
C3_FullStep ==
    /\ (Live = WASM_AUDIO_RING_SIZE - 1 /\ lastOp' = "ring_write")
          => (lastRet' = 0 /\ ring' = ring /\ accepted' = accepted)
    /\ (/\ lastOp = "ring_read"
        /\ lastRet >= 1
        /\ Live + lastRet = WASM_AUDIO_RING_SIZE - 1
        /\ lastOp' = "ring_write")
          => lastRet' = Min(lastReq', lastRet)

C3_ScenarioReturns ==
    /\ scenario = 1 => lastRet = WASM_AUDIO_RING_SIZE - 1
    /\ scenario = 2 => lastRet = 0
    /\ scenario = 3 => (lastRet = 4 /\ got = <<1, 2, 3, 4>>)
    /\ scenario = 4 => lastRet = 2

\* C3: the scenario's returns hold in every state and C3_FullStep on every step
C3_FullBuffer == []C3_ScenarioReturns /\ [][C3_FullStep]_vars

\* the scenario has been followed to its last call
C3_Witness == scenario = 4

\* C4: partial accept.  ring_write(data, count) returns min(count, free
\* space at the call), stores exactly that many leading elements of data in
\* order (and touches no other slot), and advances the write cursor by the
\* returned count modulo N.
C4_WriteStep ==
    lastOp' = "ring_write" =>
        LET free == (WASM_AUDIO_RING_SIZE - 1) - Live
            n    == lastRet'
            w    == ring.write_pos
            at(i) == (w + i) % WASM_AUDIO_RING_SIZE
        IN  /\ n = Min(lastReq', free)
            /\ \A i \in 0..(n - 1) : ring'.buffer[at(i)] = Len(accepted) + i + 1
            /\ \A j \in Slots :
                  (\A i \in 0..(n - 1) : j # at(i)) => ring'.buffer[j] = ring.buffer[j]
            /\ ring'.write_pos = at(n)
            /\ accepted' = accepted \o [i \in 1..n |-> Len(accepted) + i]

\* C4: every step that is a ring_write satisfies C4_WriteStep
C4_PartialAccept == [][C4_WriteStep]_vars

\* a request larger than the free space, partly accepted across the wrap
C4_Witness ==
    /\ lastOp = "ring_write"
    /\ lastRet > 0
    /\ lastRet < lastReq
    /\ ring.write_pos > 0
    /\ ring.write_pos < lastRet

\* C6: cursor ownership.  ring_write never changes the read cursor and
\* ring_read never changes the write cursor, also when 0 samples move.
C6_OwnStep ==
    /\ lastOp' = "ring_write" => ring'.read_pos = ring.read_pos
    /\ lastOp' = "ring_read"  => ring'.write_pos = ring.write_pos

\* C6: every step leaves the other side's cursor alone (C6_OwnStep)
C6_CursorOwnership == [][C6_OwnStep]_vars

\* a read that moved nothing on a ring that has been written
C6_Witness ==
    /\ lastOp = "ring_read"
    /\ lastReq > 0
    /\ lastRet = 0
    /\ ring.write_pos > 0

-----------------------------------------------------------------------------
(* Properties of the interleaved producer and consumer (SpecSPSC) *)

\* C5: SPSC safety.  Under every interleaving of one producer and one
\* consumer the consumer's copy holds only samples whose write was completed
\* and published, in write order (so the reads stay a prefix of the accepted
\* stream), and every sample the consumer has not released yet still sits
\* unchanged in its slot: the producer has not overwritten it.
C5_SpscSafety ==
    /\ IsPrefix(got \o c_data, accepted)
    /\ \A i \in (Len(got) + 1)..Len(accepted) :
          ring.buffer[(i - 1) % WASM_AUDIO_RING_SIZE] = accepted[i]

\* both sides are between their memcpy and their cursor store, the
\* producer's block wrapping past the end of the array
C5_Witness ==
    /\ p_pc = "store"
    /\ c_pc = "store"
    /\ c_count > 0
    /\ ring.write_pos + p_count > WASM_AUDIO_RING_SIZE
    /\ Len(got) > 0

-----------------------------------------------------------------------------
(* Properties of the stream endpoints *)

Open == wasm_audio_state # NULL

\* samples held by a ring, from its cursors
Held(rb) == (rb.write_pos - rb.read_pos) % WASM_AUDIO_RING_SIZE

\* C7: output drop policy.  When a write offers more frames than the output
\* ring can accept, the value returned is the number of frames accepted: the
\* ring has taken exactly that many frames and nothing of the tail.
C7_WriteStep ==
    (Open /\ wasm_audio_state' # NULL /\ lastOp' \in {"wasm_audio_write", "wasm_write"}) =>
        LET st       == wasm_audio_state[1]
            channels == st.config.channels
            stored   == Held(wasm_audio_state'[1].output_ring) - Held(st.output_ring)
            free     == (WASM_AUDIO_RING_SIZE - 1) - Held(st.output_ring)
        IN  IF lastOp' = "wasm_audio_write"
            THEN lastReq' * channels > free => stored = lastRet' * channels
            ELSE (hw_out[1].bits = 16 /\ lastReq' * channels > free)
                    => stored = (lastRet' \div (hw_out[1].nchannels * 2)) * channels

\* C7: every write that offers more than fits returns what the ring took (C7_WriteStep)
C7_OutputDropPolicy == [][C7_WriteStep]_vars

\* C8: input partial read.  A read returns the number of samples it drained
\* from the input ring, min(requested, available), 0 on an empty ring, and
\* the read cursor advances by that count (wasm_read counts in bytes, two per
\* sample of the 16-bit format it converts to).
C8_ReadStep ==
    (Open /\ wasm_audio_state' # NULL /\ lastOp' \in {"wasm_audio_read", "wasm_read"}) =>
        LET before  == wasm_audio_state[1].input_ring
            after   == wasm_audio_state'[1].input_ring
            drained == Held(before) - Held(after)
        IN  /\ after.read_pos = (before.read_pos + drained) % WASM_AUDIO_RING_SIZE
            /\ IF lastOp' = "wasm_audio_read"
               THEN lastRet' = drained /\ drained = Min(lastReq', Held(before))
               ELSE hw_in[1].bits = 16 => lastRet' = drained * 2

\* C8: every read returns the count it drained (C8_ReadStep)
C8_InputPartialRead == [][C8_ReadStep]_vars

\* C9: underrun counting.  A consumer pull wasm_audio_fill_buffer(n) adds
\* exactly 1 to the underrun counter when the output ring holds fewer than
\* n * channels samples and nothing otherwise; no other operation on an open
\* session changes the counter.
C9_UnderrunStep ==
    (Open /\ wasm_audio_state' # NULL) =>
        LET st    == wasm_audio_state[1]
            after == wasm_audio_state'[1].info.underruns
        IN  IF lastOp' = "wasm_audio_fill_buffer"
            THEN after = st.info.underruns +
                    (IF Held(st.output_ring) < lastReq' * st.config.channels THEN 1 ELSE 0)
            ELSE after = st.info.underruns

\* C9: every step on an open session counts underruns as C9_UnderrunStep says
C9_UnderrunCounting == [][C9_UnderrunStep]_vars

\* two pulls fell short on a ring that holds samples
C9_Witness ==
    /\ Open
    /\ lastOp = "wasm_audio_fill_buffer"
    /\ wasm_audio_state[1].info.underruns = 2
    /\ Held(wasm_audio_state[1].output_ring) > 0

\* C10: output shortfall is recoverable.  After wasm_audio_write returned a
\* short count on a full output ring, with the render callback invoked again
\* and again by a running context, a later wasm_audio_write accepts at least
\* one frame (unless the session is shut down first).
C10_OutputRecovers ==
    (/\ Open
     /\ Rendering
     /\ lastOp = "wasm_audio_write"
     /\ lastRet < lastReq
     /\ Held(wasm_audio_state[1].output_ring) = WASM_AUDIO_RING_SIZE - 1)
    ~> (~Open \/ ~Rendering \/ (lastOp = "wasm_audio_write" /\ lastRet >= 1))

-----------------------------------------------------------------------------
(* Properties of the session lifecycle (SpecCtl) *)

\* the state field of an open session
InfoState == wasm_audio_state[1].info.state

\* C12: blocked resume.  wasm_audio_resume called on an open session while
\* autoplay is disallowed (no user gesture yet, the context not running)
\* returns a failure and leaves the session and its context as they were.
C12_ResumeStep ==
    (/\ Open
     /\ ~user_gesture
     /\ ~wasm_audio_autoplay_allowed(js_wasmAudio)
     /\ lastOp' = "wasm_audio_resume")
    => (/\ lastRet' < 0
        /\ wasm_audio_state' = wasm_audio_state
        /\ js_wasmAudio'[1].context = js_wasmAudio[1].context)

\* C12: every resume made while autoplay is disallowed satisfies C12_ResumeStep
C12_BlockedResume == [][C12_ResumeStep]_vars

\* C13: permitted resume.  Once wasm_audio_resume has been called on a
\* Suspended session after a user gesture, the state wasm_audio_get_info
\* reports becomes Running, unless the session is shut down, suspended or
\* sent to the background first.
C13_PermittedResume ==
    (/\ Open
     /\ user_gesture
     /\ lastOp = "wasm_audio_resume"
     /\ lastRet = 0
     /\ InfoState = WASM_AUDIO_STATE_SUSPENDED)
    ~> (\/ ~Open
        \/ (lastOp = "wasm_audio_get_info" /\ lastRet = WASM_AUDIO_STATE_RUNNING
            /\ InfoState = WASM_AUDIO_STATE_RUNNING)
        \/ lastOp = "wasm_audio_suspend"
        \/ (lastOp = "visibilitychange" /\ lastReq = 1))

\* a resume of a suspended context has just been asked for, after a gesture,
\* on a session whose state field says Suspended
C13_Witness ==
    /\ Open
    /\ user_gesture
    /\ lastOp = "wasm_audio_resume"
    /\ lastRet = 0
    /\ InfoState = WASM_AUDIO_STATE_SUSPENDED
    /\ js_wasmAudio[1].context = "suspended"
    /\ js_wasmAudio[1].then_pending

\* C14: interruption round trip.  wasm_audio_handle_interruption(false) on an
\* Interrupted session puts back the state the interruption found.
C14_EndStep ==
    (/\ Open
     /\ InfoState = WASM_AUDIO_STATE_INTERRUPTED
     /\ lastOp' = "wasm_audio_handle_interruption"
     /\ lastReq' = 0)
    => wasm_audio_state'[1].info.state = pre_interrupt.state

\* C14: every interruption end satisfies C14_EndStep
C14_RoundTrip == [][C14_EndStep]_vars

\* C15: interruption idempotence.  A second wasm_audio_handle_interruption(true)
\* right after a first leaves the whole session, and the host side, as the
\* first left them: Interrupted, the flag set, every other field equal.
C15_RepeatStep ==
    (/\ Open
     /\ lastOp = "wasm_audio_handle_interruption" /\ lastReq = 1
     /\ lastOp' = "wasm_audio_handle_interruption" /\ lastReq' = 1)
    => (/\ wasm_audio_state' = wasm_audio_state
        /\ js_wasmAudio' = js_wasmAudio
        /\ wasm_audio_state'[1].info.state = WASM_AUDIO_STATE_INTERRUPTED
        /\ wasm_audio_state'[1].interrupted)

\* C15: every repeated interruption begin satisfies C15_RepeatStep
C15_Idempotent == [][C15_RepeatStep]_vars

\* a second begin event arrived during an interruption of a Running session
C15_Witness ==
    /\ Open
    /\ lastOp = "wasm_audio_handle_interruption"
    /\ lastReq = 1
    /\ pre_interrupt = [state |-> WASM_AUDIO_STATE_RUNNING, begins |-> 2]

\* C16: Closed is terminal.  wasm_audio_shutdown of an open session leaves no
\* session and no context; while there is no session wasm_audio_get_info
\* returns NULL, resume / suspend fail once the context is gone, and only a
\* wasm_audio_init that returns 0 makes a session again.
C16_ClosedStep ==
    /\ (Open /\ lastOp' = "wasm_audio_shutdown")
          => (wasm_audio_state' = NULL /\ js_wasmAudio' = NULL)
    /\ (~Open /\ wasm_audio_state' # NULL)
          => (lastOp' = "wasm_audio_init" /\ lastRet' = 0)
    /\ (~Open /\ lastOp' = "wasm_audio_get_info") => lastRet' = -1
    /\ (~Open /\ js_wasmAudio = NULL
          /\ lastOp' \in {"wasm_audio_resume", "wasm_audio_suspend"})
          => (lastRet' = -1 /\ js_wasmAudio' = NULL)

\* C16: every step satisfies C16_ClosedStep
C16_ClosedTerminal == [][C16_ClosedStep]_vars

\* an interruption end arrives after an interrupted session was shut down
C16_Witness ==
    /\ ~Open
    /\ js_wasmAudio = NULL
    /\ lastOp = "wasm_audio_handle_interruption"
    /\ lastReq = 0
    /\ pre_interrupt.begins = 1

\* C18: open postcondition.  A wasm_audio_init that returns 0 where there was
\* no session leaves a session that is Suspended, with both rings empty, the
\* counters zero, both volumes and the input gain 1.0, not muted and not
\* interrupted.
C18_OpenStep ==
    (~Open /\ lastOp' = "wasm_audio_init" /\ lastRet' = 0) =>
        LET st == wasm_audio_state'[1]
        IN  /\ wasm_audio_state' # NULL
            /\ st.initialized
            /\ st.info.state = WASM_AUDIO_STATE_SUSPENDED
            /\ st.output_ring.read_pos = st.output_ring.write_pos
            /\ st.input_ring.read_pos = st.input_ring.write_pos
            /\ ring_available_read(st.output_ring) = 0
            /\ ring_available_read(st.input_ring) = 0
            /\ st.info.samples_played = 0
            /\ st.info.samples_captured = 0
            /\ st.info.underruns = 0
            /\ st.info.overruns = 0
            /\ st.volume_left = <<1, 1>>
            /\ st.volume_right = <<1, 1>>
            /\ st.input_gain = <<1, 1>>
            /\ ~st.muted
            /\ ~st.interrupted

\* C18: every successful open satisfies C18_OpenStep
C18_OpenPostcondition == [][C18_OpenStep]_vars

\* a session opened after an earlier one was shut down while interrupted
C18_Witness ==
    /\ Open
    /\ lastOp = "wasm_audio_init"
    /\ lastRet = 0
    /\ pre_interrupt.begins > 0

-----------------------------------------------------------------------------
(* The data path and the session state (SpecPlane) *)

DataPathOps ==
    {"wasm_audio_write", "wasm_audio_read", "wasm_audio_fill_buffer",
     "wasm_audio_push_input", "wasm_audio_get_free", "wasm_audio_get_available"}

\* C17: the data path never drives the session state machine.  A step of
\* wasm_audio_write, wasm_audio_read, wasm_audio_fill_buffer,
\* wasm_audio_push_input, wasm_audio_get_free or wasm_audio_get_available
\* neither opens nor closes the session and leaves info.state, the
\* interrupted flag and the state of the audio context as they were.
C17_DataStep ==
    lastOp' \in DataPathOps =>
        /\ (wasm_audio_state' = NULL) = (wasm_audio_state = NULL)
        /\ Open => /\ wasm_audio_state'[1].info.state = InfoState
                   /\ wasm_audio_state'[1].interrupted = wasm_audio_state[1].interrupted
        /\ js_wasmAudio' = js_wasmAudio

\* C17: every step of the data path satisfies C17_DataStep
C17_DataPathFrame == [][C17_DataStep]_vars

\* the render callback has counted an underrun during an interruption of a
\* Running session that holds written samples
C17_Witness ==
    /\ Open
    /\ lastOp = "wasm_audio_fill_buffer"
    /\ InfoState = WASM_AUDIO_STATE_INTERRUPTED
    /\ wasm_audio_state[1].interrupted
    /\ pre_interrupt.state = WASM_AUDIO_STATE_RUNNING
    /\ wasm_audio_state[1].info.samples_played > 0
    /\ wasm_audio_state[1].info.underruns > 0

-----------------------------------------------------------------------------
(* Properties of the voice of wasmaud.c (SpecWaud, SpecWaudFair) *)

VoiceEnabled == wasmaud_voice # NULL /\ wasmaud_voice[1].enabled

\* the producer is blocked: wasm_write would return 0
Blocked == wasm_audio_js_get_free(Module) <= 0

\* the consumer is starved: onaudioprocess would play silence and not
\* advance the read cursor
Starved ==
    IF Module = NULL THEN FALSE
    ELSE IF Module[1].ringBuffer = 0 THEN FALSE
    ELSE RingAvailable(Module) < BytesNeeded

C11_NotBlockedAndStarved == VoiceEnabled => ~(Blocked /\ Starved)

C11_Recovers ==
    (/\ VoiceEnabled
     /\ WaudRendering
     /\ Blocked
     /\ lastOp = "wasmaud.wasm_write" /\ lastReq > 0 /\ lastRet = 0)
    ~> (\/ (lastOp = "wasmaud.wasm_write" /\ lastRet > 0)
        \/ ~VoiceEnabled
        \/ ~WaudRendering)

\* C11: output shortfall is recoverable (wasmaud.c).  With the voice enabled
\* no state has the producer blocked (wasm_audio_js_get_free <= 0) and the
\* consumer starved (fewer bytes available than one callback needs); and once
\* wasm_write has returned 0 on the full ring, while the render callback
\* keeps being invoked a later wasm_write returns more than 0.
C11_OutputRecoverable == []C11_NotBlockedAndStarved /\ C11_Recovers

\* wasm_write has just returned 0 on the full ring of a playing voice
C11_Witness ==
    /\ VoiceEnabled
    /\ WaudRendering
    /\ Blocked
    /\ ~Starved
    /\ lastOp = "wasmaud.wasm_write"
    /\ lastReq > 0
    /\ lastRet = 0

-----------------------------------------------------------------------------
(* Volume and mute of both drivers (SpecMute, SpecVol) *)

\* wasmaudio.c: what the render callback of a muted session sends out is zero
MuteSilencesAudio ==
    (Open /\ wasm_audio_state[1].muted /\ lastOp = "wasm_audio_fill_buffer")
        => heard \subseteq {ZeroF}

\* wasmaud.c: what onaudioprocess sends out while the driver is muted is zero
MuteSilencesWaud ==
    (wasmaud_state.muted /\ lastOp = "wasmaud.onaudioprocess")
        => heard \subseteq {ZeroF}

\* C19: mute silences output.  Between set_mute(true) and set_mute(false)
\* every sample the host consumer gets from a render block is zero, whatever
\* the device wrote, in wasmaudio.c and in wasmaud.c.
C19_MuteSilences == MuteSilencesAudio /\ MuteSilencesWaud

\* C20: unmute restores volume.  In both drivers the stored volume is always
\* the one most recently configured (muting never overwrites it), and a
\* set_mute(false) on a muted driver leaves the gain of the gain node equal
\* to the gain of that volume, set before muting or while muted.
C20_VolumeStep ==
    /\ wasm_audio_state' # NULL =>
          <<wasm_audio_state'[1].volume_left, wasm_audio_state'[1].volume_right>>
              = configured'.audio
    /\ wasmaud_state'.volume = configured'.waud
    /\ (/\ Open
        /\ wasm_audio_state[1].muted
        /\ js_wasmAudio[1].gainNode
        /\ lastOp' = "wasm_audio_set_mute"
        /\ lastReq' = 0)
       => (/\ ~wasm_audio_state'[1].muted
           /\ js_wasmAudio'[1].gain = Avg(configured.audio[1], configured.audio[2]))
    /\ (/\ Module # NULL
        /\ wasmaud_state.muted
        /\ lastOp' = "wasmaud.wasm_audio_set_muted"
        /\ lastReq' = 0)
       => (/\ ~wasmaud_state'.muted
           /\ Module'[1].gain = configured.waud)

\* C20: every step satisfies C20_VolumeStep
C20_UnmuteRestores == [][C20_VolumeStep]_vars

\* wasmaudio.c has just been unmuted after the volume was set to (0.5, 1.0)
\* while it was muted: the gain is 0.75
C20_Witness ==
    /\ Open
    /\ lastOp = "wasm_audio_set_mute"
    /\ lastReq = 0
    /\ ~wasm_audio_state[1].muted
    /\ configured.audio = <<(<<1, 2>>), (<<1, 1>>)>>
    /\ configured.audio_muted
    /\ js_wasmAudio[1].gain = <<3, 4>>

-----------------------------------------------------------------------------
(* The control plane and a stream in progress (SpecStream) *)

ControlOps ==
    {"wasm_audio_resume", "wasm_audio_suspend", "wasm_audio_handle_interruption",
     "wasm_audio_request_input", "wasm_audio_set_volume", "wasm_audio_set_mute",
     "wasm_audio_set_input_gain"}

\* the four transfer counters of the session
Counters(st) ==
    <<st.info.samples_played, st.info.samples_captured,
      st.info.underruns, st.info.overruns>>

\* C21: control-plane operations do not disturb a stream in progress.  A step
\* of resume, suspend, handle_interruption, request_input, set_volume,
\* set_mute or set_input_gain on an open session leaves it open, with both
\* rings (cursors and contents) and the transfer counters as they were, and
\* leaves the staging buffer alone.
C21_ControlStep ==
    (Open /\ lastOp' \in ControlOps) =>
        /\ wasm_audio_state' # NULL
        /\ wasm_audio_state'[1].output_ring = wasm_audio_state[1].output_ring
        /\ wasm_audio_state'[1].input_ring = wasm_audio_state[1].input_ring
        /\ Counters(wasm_audio_state'[1]) = Counters(wasm_audio_state[1])
        /\ wasm_audio_temp_buffer' = wasm_audio_temp_buffer

\* C21: every control step satisfies C21_ControlStep
C21_ControlFrame == [][C21_ControlStep]_vars

\* an interruption has just ended on a session whose input ring still holds
\* captured samples, part of which were already read
C21_Witness ==
    /\ Open
    /\ lastOp = "wasm_audio_handle_interruption"
    /\ lastReq = 0
    /\ pre_interrupt.state = WASM_AUDIO_STATE_SUSPENDED
    /\ ring_available_read(wasm_audio_state[1].input_ring) > 0
    /\ wasm_audio_state[1].input_ring.read_pos > 0

-----------------------------------------------------------------------------
(* Teardown of both drivers (SpecTeardown) *)

RenderOps == {"wasm_audio_fill_buffer", "late_onaudioprocess", "wasmaud.onaudioprocess"}

-----------------------------------------------------------------------------
(* Configuration given to wasm_audio_init (SpecConfig) *)

\* channel counts a WasmAudioConfig can carry, zero among them
ConfigChannels == {0, 1, 2}

\* the embedder opens a session with any configuration and uses it
NextConfig ==
    \/ UserGesture
    \/ \E channels \in ConfigChannels, use_worklet \in BOOLEAN :
          AudioInitBackend(channels, use_worklet, 0)
    \/ \E samples \in 1..MaxFrames : AudioWrite(samples)
    \/ GetFree
    \/ FillBuffer(1)
    \/ AudioShutdown

SpecConfig == Init /\ [][NextConfig]_vars

\* C23: an invalid configuration fails at construction.  No session is ever
\* open with channel count 0, and no call of wasm_audio_write,
\* wasm_audio_get_free or wasm_audio_fill_buffer faults on a division by the
\* channel count.
C23_FailsAtConstruction ==
    /\ wasm_audio_state # NULL => wasm_audio_state[1].config.channels # 0
    /\ lastOp \in {"wasm_audio_write", "wasm_audio_get_free", "wasm_audio_fill_buffer"}
          => lastRet # DivTrap

-----------------------------------------------------------------------------
(* The sample conversions of wasm_write and wasm_read (SpecRoundTrip,       *)
(* SpecConv).  A float is a pair in lowest terms; the values of binary32    *)
(* that are not finite have denominator 0.                                  *)

PosInf == <<1, 0>>
NegInf == <<-1, 0>>
NaN == <<0, 0>>

IsNaN(a) == a = NaN
IsInf(a) == a[2] = 0 /\ a[1] # 0
Abs(n) == IF n < 0 THEN -n ELSE n
Sgn(a) == IF a[1] > 0 THEN 1 ELSE IF a[1] < 0 THEN -1 ELSE 0

\* a binary32 significand has 24 bits
SignificandBits == 24

\* the number of low bits of the natural number n that do not fit the significand
RECURSIVE DropBits(_)
DropBits(n) == IF n < Pow2(SignificandBits) THEN 0 ELSE 1 + DropBits(n \div 2)

\* the binary32 nearest to the finite value a (ties to even); a has a
\* power of two as denominator and is within the exponent range
RoundF32(a) ==
    LET n    == Abs(a[1])
        q    == Pow2(DropBits(n))
        lo   == n \div q
        rem  == n % q
        up   == 2 * rem > q \/ (2 * rem = q /\ lo % 2 = 1)
        m    == IF q = 1 THEN n ELSE (IF up THEN lo + 1 ELSE lo) * q
    IN  Norm(<<Sgn(a) * m, a[2]>>)

\* a * b in binary32
float_mul(a, b) ==
    IF IsNaN(a) \/ IsNaN(b) THEN NaN
    ELSE IF IsInf(a) \/ IsInf(b)
         THEN (IF Sgn(a) * Sgn(b) = 0 THEN NaN ELSE <<Sgn(a) * Sgn(b), 0>>)
         ELSE RoundF32(<<a[1] * b[1], a[2] * b[2]>>)

\* a > b and a < b in binary32: false when either is NaN
float_gt(a, b) == ~IsNaN(a) /\ ~IsNaN(b) /\ a[1] * b[2] > b[1] * a[2]
float_lt(a, b) == ~IsNaN(a) /\ ~IsNaN(b) /\ a[1] * b[2] < b[1] * a[2]

Int16 == -32768..32767

\* what a call ends with when the conversion of a float to int16_t faults
CastTrap == 65536

\* the body of wasm_read's conversion loop for one staged float x: the values
\* dst[i] can get.  (int16_t) of a NaN is undefined: the cast yields 0
\* (saturating and x86 conversions) or traps (i32.trunc_f32_s)
float_to_i16(x, input_gain) ==
    LET sample  == float_mul(x, input_gain)
        high    == IF float_gt(sample, Flt(1)) THEN Flt(1) ELSE sample
        clamped == IF float_lt(high, Flt(-1)) THEN Flt(-1) ELSE high
        scaled  == float_mul(clamped, Flt(32767))
    IN  IF IsNaN(scaled) THEN {0, CastTrap}
        ELSE {Sgn(scaled) * (Abs(scaled[1]) \div scaled[2])}

\* the state before a conversion: a 16-bit mono voice in each direction, an
\* open session with the given input gain, sample x about to be played and
\* the staging array as given
InitConvert(x, input_gain, staged) ==
    /\ ring = NewRing
    /\ accepted = << >>
    /\ got = << >>
    /\ lastOp = "none"
    /\ lastReq = x
    /\ lastRet = 0
    /\ scenario = 0
    /\ UiInit
    /\ p_pc = "idle"
    /\ p_count = 0
    /\ c_pc = "idle"
    /\ c_count = 0
    /\ c_data = << >>
    /\ wasm_audio_state = <<[NewSession(1) EXCEPT !.input_gain = input_gain]>>
    /\ wasm_audio_temp_buffer = staged
    /\ wasm_audio_temp_buffer_size = Len(staged)
    /\ hw_out = <<[nchannels |-> 1, bits |-> 16]>>
    /\ hw_in = <<[nchannels |-> 1, bits |-> 16]>>
    /\ js_inputNode = FALSE
    /\ out_accepted = 0
    /\ in_accepted = 0
    /\ js_wasmAudio = << >>
    /\ user_gesture = FALSE
    /\ pre_interrupt = [state |-> 0, begins |-> 0]
    /\ configured = [audio |-> <<Flt(1), Flt(1)>>, audio_muted |-> FALSE,
                     waud |-> ZeroF, waud_muted |-> FALSE]
    /\ heard = {}
    /\ wasmaud_state = [initialized |-> FALSE, volume |-> ZeroF, muted |-> FALSE]
    /\ wasmaud_voice = << >>
    /\ Module = << >>

convFrame == <<ringVars, scenario, uiVars, spscVars, wasm_audio_state, wasm_audio_temp_buffer_size,
               hw_out, hw_in, js_inputNode, out_accepted, in_accepted, ctlVars, waudVars>>

\* the conversion loop of wasm_write for the sample lastReq: the float is
\* stored in the staging array
ConvertOut ==
    /\ lastOp = "none"
    /\ wasm_audio_temp_buffer' = <<i16_to_float(lastReq)>>
    /\ lastOp' = "wasm_write"
    /\ UNCHANGED <<lastReq, lastRet, convFrame>>

\* the conversion loop of wasm_read for the float in the staging array
ConvertIn ==
    /\ lastOp # "wasm_read"
    /\ wasm_audio_temp_buffer # NULL
    /\ lastRet' \in float_to_i16(wasm_audio_temp_buffer[1], wasm_audio_state[1].input_gain)
    /\ lastOp' = "wasm_read"
    /\ UNCHANGED <<lastReq, wasm_audio_temp_buffer, convFrame>>

NextConvert == ConvertOut \/ ConvertIn

\* every int16_t sample is played and captured back with input gain 1.0
InitRoundTrip == \E x \in Int16 : InitConvert(x, Flt(1), NULL)

SpecRoundTrip == InitRoundTrip /\ [][NextConvert]_vars

\* C24: conversion round trip.  A 16-bit sample converted to float as
\* wasm_write does and back as wasm_read does with input gain 1.0 differs
\* from the original by at most 1.
C24_RoundTrip ==
    lastOp = "wasm_read" => /\ lastRet \in Int16
                            /\ Abs(lastRet - lastReq) <= 1

\* the most negative sample came back one step closer to zero
C24_Witness ==
    /\ lastOp = "wasm_read"
    /\ lastReq = -32768
    /\ wasm_audio_temp_buffer = <<i16_to_float(-32768)>>
    /\ lastRet = -32767

-----------------------------------------------------------------------------
(* Range of the conversions (SpecConv) *)

\* the int16_t samples played: the ends of the range and the values around 0
EdgeSamples == {-32768, -32767, -1, 0, 1, 32767}

\* what the host can leave in the staging array: finite floats inside and
\* outside [-1, 1], the infinities and NaN
StagedFloats == {NaN, PosInf, NegInf, ZeroF, <<1, 2>>, <<-1, 2>>, Flt(1), Flt(-1),
                 Flt(2), Flt(-2), <<1, 32768>>, <<32767, 32768>>}

\* the gains wasm_audio_set_input_gain is given
InputGains == {ZeroF, <<1, 2>>, Flt(1), Flt(2), Flt(-1), PosInf, NaN}

InitConv ==
    \E x \in EdgeSamples, input_gain \in InputGains, f \in StagedFloats :
       InitConvert(x, input_gain, <<f>>)

SpecConv == InitConv /\ [][NextConvert]_vars

\* C25: conversion range.  The float wasm_write stores for an int16_t lies
\* in [-1.0, 1.0]; the int16_t wasm_read stores lies in the int16_t range
\* for every staged float and every input gain, and is 0 when the staged
\* float is NaN or an infinity.
C25_ConversionRange ==
    /\ lastOp = "wasm_write"
          => /\ ~float_gt(wasm_audio_temp_buffer[1], Flt(1))
             /\ ~float_lt(wasm_audio_temp_buffer[1], Flt(-1))
    /\ lastOp = "wasm_read"
          => /\ lastRet \in Int16
             /\ (IsNaN(wasm_audio_temp_buffer[1]) \/ IsInf(wasm_audio_temp_buffer[1]))
                   => lastRet = 0

-----------------------------------------------------------------------------
(* The transfer counters (SpecCounters) *)

\* the counts the page's script passes to the exported wasm_audio_push_input
PushCounts == {-1, 1}

\* wasm_audio_push_input called by the page's script with a signed count, on
\* whatever the staging array holds.  samples_captured is a uint64_t: a
\* negative count is followed where the sum stays above zero (below, the
\* counter wraps to 2^64 + sum), and while the ghost count of accepted
\* samples is within the model's range
PushInput(samples) ==
    /\ wasm_audio_state # NULL =>
          /\ wasm_audio_state[1].info.samples_captured + samples >= 0
          /\ wasm_audio_state[1].info.samples_captured + samples
                <= WASM_AUDIO_RING_SIZE + ExtraSamples
    /\ in_accepted <= InputBlock
    /\ \E res \in {wasm_audio_push_input(wasm_audio_state, wasm_audio_temp_buffer, samples)} :
          /\ wasm_audio_state' = res.state
          /\ in_accepted' = in_accepted + res.written
          /\ lastRet' = res.written
    /\ lastOp' = "wasm_audio_push_input"
    /\ lastReq' = samples
    /\ UNCHANGED <<ctlVars, waudVars, wasm_audio_temp_buffer, wasm_audio_temp_buffer_size,
                   hw_out, hw_in, js_inputNode, out_accepted, ringVars, scenario, uiVars, spscVars>>

\* a session is opened, played to, rendered, captured from and controlled
NextCounters ==
    \/ UserGesture
    \/ \E channels \in ChannelCounts : AudioInit(channels, 0)
    \/ OutputSession /\ AudioWrite(MaxFrames)
    \/ OutputSession /\ FillBuffer(1)
    \/ InputSession /\ RequestInput(TRUE)
    \/ InputSession /\ in_accepted <= InputBlock /\ HostInput
    \/ \E samples \in PushCounts : InputSession /\ PushInput(samples)
    \/ InputSession /\ AudioRead(MaxInSamples)
    \/ \E mute \in BOOLEAN : SetMute(mute)
    \/ AudioShutdown

SpecCounters == Init /\ [][NextCounters]_vars

\* C26: on a step of an open session that leaves it open, none of
\* samples_played, samples_captured, underruns and overruns gets smaller
C26_CountersStep ==
    (Open /\ wasm_audio_state' # NULL) =>
        \A i \in 1..4 : Counters(wasm_audio_state'[1])[i] >= Counters(wasm_audio_state[1])[i]

\* C26: counters are monotonic.  Between a successful open and shutdown the
\* four counters never decrease, whatever write, read, fill_buffer,
\* push_input and control operations are made.
C26_CountersMonotonic == [][C26_CountersStep]_vars

-----------------------------------------------------------------------------
(* wasm_audio_init on an open session (SpecReopen) *)

\* a session in use is opened again, by the embedder and by wasm_init_out,
\* with the same and with another channel count
NextReopen ==
    \/ UserGesture
    \/ \E channels \in ChannelCounts, js_ret \in {0, -1} : AudioInit(channels, js_ret)
    \/ \E nchannels \in ChannelCounts : InitOut(nchannels, 16, 0)
    \/ OutputSession /\ AudioWrite(MaxFrames)
    \/ OutputSession /\ FillBuffer(1)
    \/ InputSession /\ RequestInput(TRUE)
    \/ InputSession /\ HostInput
    \/ SetVolume(<<1, 2>>, <<1, 2>>)
    \/ \E mute \in BOOLEAN : SetMute(mute)
    \/ SetInputGain(<<1, 2>>)
    \/ Suspend
    \/ AudioShutdown

SpecReopen == Init /\ [][NextReopen]_vars

\* C27: a call of wasm_audio_init (directly or from wasm_init_out) on an
\* initialised session returns 0 and leaves the session (configuration, rings,
\* counters, volumes, mute, input gain), the host's context and gain node and
\* the staging array as they were
C27_ReopenStep ==
    (/\ wasm_audio_state # NULL
     /\ wasm_audio_state[1].initialized
     /\ lastOp' \in {"wasm_audio_init", "wasm_init_out"})
       => /\ lastRet' = 0
          /\ wasm_audio_state' = wasm_audio_state
          /\ js_wasmAudio' = js_wasmAudio
          /\ configured' = configured
          /\ wasm_audio_temp_buffer' = wasm_audio_temp_buffer

\* C27: re-open is idempotent.  Every such step satisfies C27_ReopenStep.
C27_ReopenIdempotent == [][C27_ReopenStep]_vars

\* wasm_audio_init was just called for a mono session on a muted stereo
\* session whose output ring holds samples, which is still stereo
C27_Witness ==
    /\ lastOp = "wasm_audio_init"
    /\ lastReq = 1
    /\ lastRet = 0
    /\ wasm_audio_state # NULL
    /\ wasm_audio_state[1].config.channels = 2
    /\ wasm_audio_state[1].muted
    /\ wasm_audio_state[1].info.samples_played > 0
    /\ wasm_audio_state[1].output_ring.write_pos > 0

-----------------------------------------------------------------------------
(* Frames in the output ring (SpecOut) *)

\* C28: whole frames only.  In a session with two or more channels the
\* number of samples the output ring holds is a multiple of the channel
\* count after every wasm_audio_write of whole frames.
C28_WholeFrames ==
    (Open /\ wasm_audio_state[1].config.channels >= 2)
       => Held(wasm_audio_state[1].output_ring) % wasm_audio_state[1].config.channels = 0

-----------------------------------------------------------------------------
(* The staging array shared by wasm_write, wasm_read and the capture        *)
(* callback (SpecStaging)                                                   *)

\* both voices of the driver and the capture callback, in any order (the
\* callback until the input ring has accepted more than one block)
NextStaging ==
    \/ UserGesture
    \/ \E nchannels \in ChannelCounts : InitOut(nchannels, 16, 0)
    \/ InitIn(1, 16, TRUE)
    \/ \E frames \in 0..MaxDrvFrames : WasmWrite(frames, frames)
    \/ \E frames \in 0..MaxDrvFrames : WasmRead(frames, frames)
    \/ in_accepted <= InputBlock /\ HostInput
    \/ AudioShutdown

SpecStaging == Init /\ [][NextStaging]_vars

\* C29: staging buffer bounds.  When the capture callback has pushed a block,
\* the array wasm_audio_get_input_buffer handed out has room for the block
\* (lastReq floats), and wasm_audio_push_input copied no more floats out of
\* it (lastRet) than wasm_audio_temp_buffer_size.
C29_StagingBounds ==
    lastOp = "wasm_audio_push_input"
       => /\ lastReq <= wasm_audio_temp_buffer_size
          /\ lastRet <= wasm_audio_temp_buffer_size

-----------------------------------------------------------------------------
(* The stream through the ring of wasmaud.c (SpecWaudStream): the mixer      *)
(* writes numbered samples, accepted and got are what the ring took and      *)
(* what the render callback read, in order                                   *)

\* the mixer writes until this many int16 samples have been accepted
MaxStream == 8

streamFrame == <<js_wasmAudio, pre_interrupt, sessVars, ring, scenario, uiVars, spscVars>>

\* wasm_write called by the mixer with frames whole frames; the samples
\* carry their position in the stream (1, 2, ...)
WaudWriteStream(frames) ==
    /\ wasmaud_voice # NULL
    /\ Len(accepted) + 2 * frames <= MaxStream
    /\ LET buf == [i \in 1..(2 * frames) |-> Len(accepted) + i]
       IN  \E res \in {wasmaud_write(wasmaud_voice, Module, buf,
                                     frames * FrameBytes, frames * FrameBytes)} :
              /\ wasmaud_voice' = res.voice
              /\ Module' = res.M
              /\ lastRet' = res.ret
              /\ accepted' = IF res.voice = wasmaud_voice THEN accepted
                             ELSE accepted \o SubSeq(buf, 1, res.ret \div 2)
    /\ lastOp' = "wasmaud.wasm_write"
    /\ lastReq' = frames * FrameBytes
    /\ UNCHANGED <<wasmaud_state, user_gesture, heard, configured, got, streamFrame>>

\* one onaudioprocess callback, the samples it read being recorded
WaudRenderStream ==
    /\ WaudRendering
    /\ \E res \in {Render16(Module, HeapAt(Module[1].ringBuffer))} :
          /\ Module' = res.M
          /\ heard' = {Mul(x, Module[1].gain) : x \in res.out}
          /\ got' = got \o res.block
          /\ lastRet' = IF res.M = Module THEN 0 ELSE BytesNeeded
    /\ lastOp' = "wasmaud.onaudioprocess"
    /\ lastReq' = BlockFrames
    /\ UNCHANGED <<wasmaud_state, wasmaud_voice, user_gesture, configured, accepted, streamFrame>>

NextWaudStream ==
    \/ UserGesture
    \/ WaudInit(TRUE)
    \/ WaudInitOut
    \/ WaudFiniOut
    \/ \E enable \in BOOLEAN : WaudEnableOut(enable, TRUE)
    \/ \E frames \in 1..wasmaud_BUFFER_SIZE : WaudWriteStream(frames)
    \/ WaudRenderStream
    \/ WaudResumeSettles

SpecWaudStream == Init /\ [][NextWaudStream]_vars

\* the samples a render step has read
C30_Block == SubSeq(got', Len(got) + 1, Len(got'))

\* the block continues the written stream: consecutive samples that were
\* written, after the last sample read before
C30_InWriteOrder ==
    /\ \A k \in 1..Len(C30_Block) : C30_Block[k] = C30_Block[1] + k - 1
    /\ C30_Block[1] >= 1
    /\ C30_Block[Len(C30_Block)] <= Len(accepted)
    /\ got # << >> => C30_Block[1] > got[Len(got)]

\* a render step on underrun plays silence and leaves the read position; any
\* other render step reads the block's samples in write order and moves the
\* read position by the block's bytes modulo the ring size
C30_RenderStep ==
    lastOp' = "wasmaud.onaudioprocess" =>
        IF RingAvailable(Module) < BytesNeeded
        THEN /\ heard' = {ZeroF}
             /\ Module'[1].ringRead = Module[1].ringRead
             /\ got' = got
        ELSE /\ Module'[1].ringRead
                   = (Module[1].ringRead + BytesNeeded) % Module[1].ringSize
             /\ Len(got') = Len(got) + 2 * BlockFrames
             /\ C30_InWriteOrder

\* C30: all-or-nothing consumer of wasmaud.c.  Every render callback
\* satisfies C30_RenderStep.
C30_AllOrNothing == [][C30_RenderStep]_vars

-----------------------------------------------------------------------------
(* The byte ring of wasmaud.c and its two sets of cursors (SpecWaud) *)

\* the byte offsets the render callback has still to read, by the host's cursors
Unread(M) == {(M[1].ringRead + j) % M[1].ringSize : j \in 0..(RingAvailable(M) - 1)}

\* the byte offsets a wasm_write of n bytes stores to
WrittenTo(voice, n) ==
    {(voice[1].ring_write_pos + i) % voice[1].ring_size : i \in 0..(n - 1)}

\* a step of wasm_write that stored bytes in the ring
C31_Stored ==
    /\ lastOp' = "wasmaud.wasm_write"
    /\ wasmaud_voice # NULL
    /\ wasmaud_voice' # wasmaud_voice

\* after any step the unread bytes are at most ring_size - 4 and the three
\* positions are multiples of the frame size; a wasm_write stores to no
\* offset that is still unread
C31_RingStep ==
    /\ (Module' # NULL /\ Module'[1].ringSize > 0)
          => /\ (Module'[1].ringWrite - Module'[1].ringRead + Module'[1].ringSize)
                    % Module'[1].ringSize <= Module'[1].ringSize - FreeMargin
             /\ Module'[1].ringRead % FrameBytes = 0
             /\ Module'[1].ringWrite % FrameBytes = 0
    /\ wasmaud_voice' # NULL => wasmaud_voice'[1].ring_write_pos % FrameBytes = 0
    /\ C31_Stored => WrittenTo(wasmaud_voice, lastRet') \cap Unread(Module) = {}

\* C31: byte-ring occupancy.  For any interleaving of wasm_write calls and
\* render callbacks the unread bytes never exceed ring_size - 4, wasm_write
\* never overwrites bytes the render callback has not consumed, and the
\* positions stay multiples of 4 (C31_RingStep holds of every step).
C31_ByteRing == [][C31_RingStep]_vars

\* C33: mirrored write cursor.  Whenever a voice exists, its ring_write_pos
\* equals the host's Module._audioRingWrite, also for a voice initialized
\* after an earlier one was finalized in the same audio session.
C33_MirroredCursor ==
    (wasmaud_voice # NULL /\ Module # NULL)
        => wasmaud_voice[1].ring_write_pos = Module[1].ringWrite

-----------------------------------------------------------------------------
(* Render callbacks connected to the output ring of wasmaud.c (SpecSingle) *)

\* how many nodes left connected behind Module._audioProcessor are followed
MaxOrphans == 2

\* the script processors connected to the gain node, each of whose
\* onaudioprocess reads the ring through Module's cursors
Connected(M) == IF M = NULL THEN 0 ELSE Bit(M[1].processor) + M[1].orphans

\* wasm_enable_out and wasm_fini_out called in any order on a voice
NextSingle ==
    \/ UserGesture
    \/ WaudInit(TRUE)
    \/ WaudInitOut
    \/ WaudFiniOut
    \/ \E enable \in BOOLEAN :
          /\ Connected(Module) <= MaxOrphans
          /\ WaudEnableOutCall(enable, TRUE)
    \/ WaudWrite(BlockFrames, 0)
    \/ WaudRender
    \/ WaudResumeSettles

SpecSingle == Init /\ [][NextSingle]_vars

\* C32: single consumer.  At most one render callback is connected to the
\* output ring at any time, and after wasm_enable_out(false) or
\* wasm_fini_out none is.
C32_SingleConsumer ==
    /\ Connected(Module) <= 1
    /\ (lastOp = "wasmaud.wasm_fini_out"
          \/ (lastOp = "wasmaud.wasm_enable_out" /\ lastReq = 0))
       => Connected(Module) = 0

-----------------------------------------------------------------------------
(* The interrupted flag and the reported state of wasmaudio.c (SpecCtl) *)

\* C34: interrupted flag matches state.  In every state of an open session,
\* wasm_audio_is_interrupted() returns true exactly when the record that
\* wasm_audio_get_info() returns has state Interrupted.
C34_FlagMatchesState ==
    wasm_audio_state # NULL
        => (wasm_audio_is_interrupted(wasm_audio_state)
              <=> wasm_audio_get_info(wasm_audio_state, js_wasmAudio)[1].info.state
                     = WASM_AUDIO_STATE_INTERRUPTED)

-----------------------------------------------------------------------------
(* The gain sent to the host while muted, both drivers (SpecMute) *)

\* wasmaudio.c: the gain node of a muted session is at 0
MuteDominatesAudio ==
    (Open /\ wasm_audio_state[1].muted /\ js_wasmAudio # NULL /\ js_wasmAudio[1].gainNode)
        => js_wasmAudio[1].gain = ZeroF

\* wasmaud.c: the gain node is at 0 while the driver's muted flag is set
MuteDominatesWaud ==
    (wasmaud_state.muted /\ Module # NULL) => Module[1].gain = ZeroF

\* C35: mute dominates volume.  In every reachable state where the mute flag
\* is set the gain last sent to the host gain node is 0, in wasmaudio.c and
\* in wasmaud.c, also after a set_volume or a driver volume callback issued
\* while muted.
C35_MuteDominates == MuteDominatesAudio /\ MuteDominatesWaud

-----------------------------------------------------------------------------
(* Accounting of captured samples in wasmaudio.c (SpecIn) *)

\* C36: capture accounting.  In an open session samples_captured equals the
\* number of samples the input ring has accepted from wasm_audio_push_input
\* (samples dropped on an input overrun are not counted).
C36_CaptureAccounting ==
    Open => wasm_audio_state[1].info.samples_captured = in_accepted

-----------------------------------------------------------------------------
(* Calls made while no session is open, wasmaudio.c (SpecClosed) *)

\* wasm_audio_fill_buffer called from the page as an exported function
FillBufferCall(samples) ==
    /\ \E st \in {wasm_audio_fill_buffer(wasm_audio_state, samples)} :
          /\ st # NULL => st[1].info.underruns <= MaxUnderruns
          /\ wasm_audio_state' = st
    /\ lastOp' = "wasm_audio_fill_buffer"
    /\ lastReq' = samples
    /\ lastRet' = 0
    /\ UNCHANGED <<js_wasmAudio, user_gesture, pre_interrupt, configured, waudVars, heard,
                   wasm_audio_temp_buffer, wasm_audio_temp_buffer_size, hw_out, hw_in,
                   js_inputNode, out_accepted, in_accepted, ringVars, scenario, uiVars, spscVars>>

\* the exported calls are made before a session is opened, after an open
\* that failed (with channels = 0 the script processor cannot be made) and
\* after shutdown; an open session is written to, muted and interrupted
\* before it is shut down
NextClosed ==
    \/ UserGesture
    \/ \E channels \in ConfigChannels, js_ret \in {0, -1} : AudioInit(channels, js_ret)
    \/ AudioShutdown
    \/ AudioWrite(1)
    \/ ~Open /\ AudioRead(1)
    \/ ~Open /\ GetFree
    \/ ~Open /\ GetAvailable
    \/ GetInfo
    \/ IsInterrupted
    \/ \E gain \in Gains : ~Open /\ SetVolume(gain, gain)
    \/ \E mute \in BOOLEAN : SetMute(mute)
    \/ \E gain \in Gains : ~Open /\ SetInputGain(gain)
    \/ ~Open /\ FillBufferCall(1)
    \/ ~Open /\ PushInput(1)
    \/ \E began \in BOOLEAN : HandleInterruption(began)

SpecClosed == Init /\ [][NextClosed]_vars

\* the exported calls that return a count
CountCalls == {"wasm_audio_write", "wasm_audio_read", "wasm_audio_get_free",
               "wasm_audio_get_available"}

\* the exported calls that return nothing
VoidCalls == {"wasm_audio_set_volume", "wasm_audio_set_mute", "wasm_audio_set_input_gain",
              "wasm_audio_fill_buffer", "wasm_audio_push_input",
              "wasm_audio_handle_interruption", "wasm_audio_shutdown"}

\* what the program and the page hold
ProgramState == <<wasm_audio_state, js_wasmAudio, js_inputNode, wasm_audio_temp_buffer,
                  wasm_audio_temp_buffer_size, hw_out, hw_in, pre_interrupt>>

\* a call made while no session is open
C37_ClosedStep ==
    wasm_audio_state = NULL =>
        /\ lastOp' \in CountCalls => (lastRet' = 0 /\ ProgramState' = ProgramState)
        /\ lastOp' = "wasm_audio_get_info" => (lastRet' = -1 /\ ProgramState' = ProgramState)
        /\ lastOp' = "wasm_audio_is_interrupted"
              => (lastRet' = 0 /\ ProgramState' = ProgramState)
        /\ lastOp' \in VoidCalls => ProgramState' = ProgramState

\* C37: operations on a closed session are harmless.  Before a successful
\* init, after a failed init and after shutdown, write, read, get_free and
\* get_available return 0, get_info returns no record, is_interrupted
\* returns false, and set_volume, set_mute, set_input_gain, fill_buffer,
\* push_input, handle_interruption and a repeated shutdown change nothing
\* (C37_ClosedStep holds of every step).
C37_ClosedHarmless == [][C37_ClosedStep]_vars

\* set_volume was called after an open that failed and left the page's
\* audio object with its gain node behind
C37_Witness ==
    /\ wasm_audio_state = NULL
    /\ js_wasmAudio # NULL
    /\ js_wasmAudio[1].gainNode
    /\ lastOp = "wasm_audio_set_volume"
    /\ js_wasmAudio[1].gain = Flt(1)

-----------------------------------------------------------------------------
(* Fences of src/ui/wasm-virtio-gpu.c (SpecFence).  The table of            *)
(* WASM_GPU_MAX_FENCES (1024) slots is scaled to MaxFences; a slot whose     *)
(* fence_id is 0 is free.                                                    *)

\* slots of the fence table
MaxFences == 2
WASM_GPU_MAX_FENCES == MaxFences
FenceSlots == 0..(WASM_GPU_MAX_FENCES - 1)

\* g_new0(WasmGpuState, 1), as far as fences go
NewGpuState ==
    [initialized   |-> TRUE,
     fences        |-> [i \in FenceSlots |-> [fence_id |-> 0, ctx_id |-> 0, signaled |-> FALSE]],
     fence_count   |-> 0,
     pending_fences |-> 0]

\* the first slot the loops of the three functions stop at: the lowest index
\* whose fence_id is id, or -1
FindSlot(g, id) ==
    LET hits == {i \in FenceSlots : g.fences[i].fence_id = id}
    IN  IF hits = {} THEN -1 ELSE CHOOSE i \in hits : \A j \in hits : i <= j

wasm_gpu_init(p) ==
    IF p # NULL /\ p[1].initialized THEN p ELSE <<NewGpuState>>

wasm_gpu_create_fence(p, ctx_id, fence_id) ==
    IF p = NULL THEN [state |-> p, ret |-> -1]
    ELSE LET i == FindSlot(p[1], 0)
         IN  IF i < 0 THEN [state |-> p, ret |-> -1]
             ELSE [state |-> <<[p[1] EXCEPT
                                  !.fences[i] = [fence_id |-> fence_id, ctx_id |-> ctx_id,
                                                 signaled |-> FALSE],
                                  !.fence_count = @ + 1,
                                  !.pending_fences = @ + 1]>>,
                   ret   |-> 0]

\* faulty variant: a signalled fence is reported and its slot is kept
wasm_gpu_fence_is_signaled_keeping(p, fence_id) ==
    IF p = NULL THEN [state |-> p, ret |-> TRUE]
    ELSE LET i == FindSlot(p[1], fence_id)
         IN  IF i < 0 THEN [state |-> p, ret |-> TRUE]
             ELSE [state |-> p, ret |-> p[1].fences[i].signaled]

wasm_gpu_fence_is_signaled(p, fence_id) ==
    IF p = NULL THEN [state |-> p, ret |-> TRUE]
    ELSE LET i == FindSlot(p[1], fence_id)
         IN  IF i < 0 THEN [state |-> p, ret |-> TRUE]
             ELSE IF p[1].fences[i].signaled
             THEN [state |-> <<[p[1] EXCEPT !.fences[i].fence_id = 0,
                                            !.fence_count = @ - 1,
                                            !.pending_fences = @ - 1]>>,
                   ret   |-> TRUE]
             ELSE [state |-> p, ret |-> FALSE]

wasm_gpu_signal_fence(p, fence_id) ==
    IF p = NULL THEN p
    ELSE LET i == FindSlot(p[1], fence_id)
         IN  IF i < 0 THEN p
             ELSE <<[p[1] EXCEPT !.fences[i].signaled = TRUE]>>

\* what a call on the GPU leaves alone
gpuFrame == <<ringVars, scenario, spscVars, sessVars, ctlVars, waudVars,
              wasm_display_state, since_ack, since_reset>>

GpuInit ==
    /\ wasm_gpu_state' = wasm_gpu_init(wasm_gpu_state)
    /\ lastOp' = "wasm_gpu_init"
    /\ lastReq' = 0
    /\ lastRet' = 0
    /\ UNCHANGED <<fence_life, gpuFrame>>

\* wasm_gpu_shutdown frees the state, and the fences with it
GpuShutdown ==
    /\ wasm_gpu_state' = NULL
    /\ fence_life' = IF wasm_gpu_state = NULL THEN fence_life
                     ELSE [id \in FenceIds |-> "none"]
    /\ lastOp' = "wasm_gpu_shutdown"
    /\ lastReq' = 0
    /\ lastRet' = 0
    /\ UNCHANGED gpuFrame

\* wasm_gpu_create_fence with an id that no live fence carries
CreateFence(ctx_id, fence_id) ==
    /\ fence_life[fence_id] = "none"
    /\ \E res \in {wasm_gpu_create_fence(wasm_gpu_state, ctx_id, fence_id)} :
          /\ wasm_gpu_state' = res.state
          /\ lastRet' = res.ret
          /\ fence_life' = IF res.ret = 0 THEN [fence_life EXCEPT ![fence_id] = "pending"]
                           ELSE fence_life
    /\ lastOp' = "wasm_gpu_create_fence"
    /\ lastReq' = fence_id
    /\ UNCHANGED gpuFrame

\* wasm_gpu_signal_fence, called from the page for any id
SignalFence(fence_id) ==
    /\ wasm_gpu_state' = wasm_gpu_signal_fence(wasm_gpu_state, fence_id)
    /\ fence_life' = IF fence_life[fence_id] = "pending"
                     THEN [fence_life EXCEPT ![fence_id] = "signaled"]
                     ELSE fence_life
    /\ lastOp' = "wasm_gpu_signal_fence"
    /\ lastReq' = fence_id
    /\ lastRet' = 0
    /\ UNCHANGED gpuFrame

\* wasm_gpu_fence_is_signaled, polled for any id
PollFence(fence_id) ==
    /\ \E res \in {wasm_gpu_fence_is_signaled(wasm_gpu_state, fence_id)} :
          /\ wasm_gpu_state' = res.state
          /\ lastRet' = Bit(res.ret)
    /\ fence_life' = IF fence_life[fence_id] = "signaled"
                     THEN [fence_life EXCEPT ![fence_id] = "none"]
                     ELSE fence_life
    /\ lastOp' = "wasm_gpu_fence_is_signaled"
    /\ lastReq' = fence_id
    /\ UNCHANGED gpuFrame

NextFence ==
    \/ GpuInit
    \/ GpuShutdown
    \/ \E ctx_id \in {0, 1}, fence_id \in FenceIds : CreateFence(ctx_id, fence_id)
    \/ \E fence_id \in FenceIds : SignalFence(fence_id)
    \/ \E fence_id \in FenceIds : PollFence(fence_id)

SpecFence == Init /\ [][NextFence]_vars

\* the slots of the table that hold a fence
Occupied(g) == {i \in FenceSlots : g.fences[i].fence_id # 0}

\* a poll of a fence that was created: before its signal it returns false and
\* changes nothing; the first one after its signal returns true and frees the
\* fence's slot
C38_PollStep ==
    (lastOp' = "wasm_gpu_fence_is_signaled" /\ wasm_gpu_state # NULL) =>
        /\ fence_life[lastReq'] = "pending"
              => (lastRet' = 0 /\ wasm_gpu_state' = wasm_gpu_state)
        /\ fence_life[lastReq'] = "signaled"
              => /\ lastRet' = 1
                 /\ FindSlot(wasm_gpu_state'[1], lastReq') = -1
                 /\ Occupied(wasm_gpu_state'[1])
                       = Occupied(wasm_gpu_state[1]) \ {FindSlot(wasm_gpu_state[1], lastReq')}

\* the occupied slots are as many as fence_count says
C38_Count ==
    wasm_gpu_state # NULL
        => Cardinality(Occupied(wasm_gpu_state[1])) = wasm_gpu_state[1].fence_count

\* C38: fence ordering.  For fences created with distinct non-zero ids,
\* wasm_gpu_fence_is_signaled(id) returns false on every poll made before
\* wasm_gpu_signal_fence(id) and true on the first poll made after it, that
\* poll releases the fence's slot (C38_PollStep holds of every step), and the
\* number of occupied slots always equals fence_count (C38_Count).
C38_FenceOrdering == []C38_Count /\ [][C38_PollStep]_vars

\* a fence was created, polled, signalled and polled again, which freed its
\* slot while another fence is still pending
C38_Witness ==
    /\ lastOp = "wasm_gpu_fence_is_signaled"
    /\ lastRet = 1
    /\ wasm_gpu_state # NULL
    /\ wasm_gpu_state[1].fence_count = 1
    /\ \E id \in FenceIds : fence_life[id] = "pending"
    /\ fence_life[lastReq] = "none"

-----------------------------------------------------------------------------
(* The dirty region of src/ui/wasm-display.c (SpecDirty).  Framebuffer       *)
(* sizes are scaled: the largest framebuffer (3840 x 2160) to MaxSide        *)
(* pixels a side, the default one (1024 x 768) to one pixel less.  The       *)
(* coordinates are small, so that no sum of two of them leaves int32_t.      *)

\* side of the largest framebuffer
MaxSide == 4
WASM_FB_MAX_WIDTH == MaxSide
WASM_FB_MAX_HEIGHT == MaxSide
WASM_FB_DEFAULT_WIDTH == MaxSide - 1
WASM_FB_DEFAULT_HEIGHT == MaxSide - 1

\* the surfaces the console switches to: none, small, largest, too wide
Surfaces == {NULL, <<[width |-> 2, height |-> 2]>>,
             <<[width |-> MaxSide, height |-> MaxSide]>>,
             <<[width |-> MaxSide + 1, height |-> 2]>>}

\* origins and extents of the rectangles flushed and updated; an update can
\* begin left of or above the surface
Origins == {0, 2}
UpdateOrigins == {-1, 2}
Extents == {0, 2}

\* rectangles followed between two acks
MaxRects == 2

Max(a, b) == IF a >= b THEN a ELSE b

\* the pixels of the rectangle <<x, y, width, height>>
Pixels(r) == {<<px, py>> : px \in r[1]..(r[1] + r[3] - 1), py \in r[2]..(r[2] + r[4] - 1)}

\* wasm_display_init, as far as the framebuffer record goes: g_new0 and the
\* default size, no surface yet
NewDisplayState ==
    [ds      |-> NULL,
     fb_info |-> [width |-> WASM_FB_DEFAULT_WIDTH, height |-> WASM_FB_DEFAULT_HEIGHT,
                  dirty |-> FALSE, dirty_x |-> 0, dirty_y |-> 0,
                  dirty_width |-> 0, dirty_height |-> 0]]

\* the dirty-region update shared by wasm_gpu_resource_flush and
\* wasm_gfx_update, for the rectangle x, y, width, height
Accumulate(fb, x, y, width, height) ==
    IF ~fb.dirty
    THEN [fb EXCEPT !.dirty_x = x, !.dirty_y = y, !.dirty_width = width,
                    !.dirty_height = height, !.dirty = TRUE]
    ELSE LET x2 == Max(fb.dirty_x + fb.dirty_width, x + width)
             y2 == Max(fb.dirty_y + fb.dirty_height, y + height)
             nx == Min(fb.dirty_x, x)
             ny == Min(fb.dirty_y, y)
         IN  [fb EXCEPT !.dirty_x = nx, !.dirty_y = ny, !.dirty_width = x2 - nx,
                        !.dirty_height = y2 - ny, !.dirty = TRUE]

\* faulty variant: the region is replaced by the rectangle flushed last
wasm_gpu_resource_flush_replacing(p, x, y, width, height) ==
    IF p = NULL THEN p
    ELSE <<[p[1] EXCEPT !.fb_info = [@ EXCEPT !.dirty_x = x, !.dirty_y = y,
                                              !.dirty_width = width,
                                              !.dirty_height = height,
                                              !.dirty = TRUE]]>>

wasm_gpu_resource_flush(p, x, y, width, height) ==
    IF p = NULL THEN p
    ELSE <<[p[1] EXCEPT !.fb_info = Accumulate(@, x, y, width, height)]>>

\* wasm_gfx_update; hidden is the test ios_optimizations && !is_visible.
\* rect is the clipped rectangle that went into the region (NULL when the
\* update returned early)
wasm_gfx_update(p, x, y, w, h, hidden) ==
    IF p = NULL THEN [state |-> p, rect |-> NULL]
    ELSE IF p[1].ds = NULL \/ hidden THEN [state |-> p, rect |-> NULL]
    ELSE LET max_x == Min(x + w, p[1].ds[1].width)
             max_y == Min(y + h, p[1].ds[1].height)
             cx    == Max(0, x)
             cy    == Max(0, y)
         IN  [state |-> <<[p[1] EXCEPT !.fb_info =
                              Accumulate(@, cx, cy, max_x - cx, max_y - cy)]>>,
              rect  |-> <<(<<cx, cy, max_x - cx, max_y - cy>>)>>]

\* wasm_gfx_switch: the whole of the new framebuffer becomes the region
wasm_gfx_switch(p, new_surface) ==
    IF p = NULL THEN p
    ELSE IF new_surface = NULL THEN <<[p[1] EXCEPT !.ds = new_surface]>>
    ELSE LET width  == new_surface[1].width
             height == new_surface[1].height
         IN  IF width > WASM_FB_MAX_WIDTH \/ height > WASM_FB_MAX_HEIGHT
             THEN <<[p[1] EXCEPT !.ds = new_surface]>>
             ELSE <<[p[1] EXCEPT !.ds = new_surface,
                                 !.fb_info = [@ EXCEPT !.width = width, !.height = height,
                                                       !.dirty = TRUE,
                                                       !.dirty_x = 0, !.dirty_y = 0,
                                                       !.dirty_width = width,
                                                       !.dirty_height = height]]>>

wasm_framebuffer_ack(p) ==
    IF p = NULL THEN p
    ELSE <<[p[1] EXCEPT !.fb_info = [@ EXCEPT !.dirty = FALSE, !.dirty_x = 0, !.dirty_y = 0,
                                              !.dirty_width = 0, !.dirty_height = 0]]>>

wasm_framebuffer_is_dirty(p) == IF p = NULL THEN FALSE ELSE p[1].fb_info.dirty

\* the four values wasm_get_dirty_region stores through its pointers
wasm_get_dirty_region(p) ==
    IF p = NULL THEN <<0, 0, 0, 0>>
    ELSE <<p[1].fb_info.dirty_x, p[1].fb_info.dirty_y,
           p[1].fb_info.dirty_width, p[1].fb_info.dirty_height>>

\* what a call on the display leaves alone
displayFrame == <<ringVars, scenario, spscVars, sessVars, ctlVars, waudVars,
                  wasm_gpu_state, fence_life>>

DisplayInit ==
    /\ wasm_display_state = NULL
    /\ wasm_display_state' = <<NewDisplayState>>
    /\ lastOp' = "wasm_display_init"
    /\ lastReq' = 0
    /\ lastRet' = 0
    /\ UNCHANGED <<since_ack, since_reset, displayFrame>>

GfxSwitch(new_surface) ==
    /\ wasm_display_state # NULL
    /\ wasm_display_state' = wasm_gfx_switch(wasm_display_state, new_surface)
    /\ since_reset' = IF wasm_display_state'[1].fb_info = wasm_display_state[1].fb_info
                      THEN since_reset ELSE {}
    /\ lastOp' = "wasm_gfx_switch"
    /\ lastReq' = 0
    /\ lastRet' = 0
    /\ UNCHANGED <<since_ack, displayFrame>>

GfxUpdate(x, y, w, h, hidden) ==
    /\ wasm_display_state # NULL
    /\ Cardinality(since_ack) < MaxRects
    /\ \E res \in {wasm_gfx_update(wasm_display_state, x, y, w, h, hidden)} :
          /\ wasm_display_state' = res.state
          /\ since_ack' = since_ack \cup {r \in {res.rect} : r # NULL}
          /\ since_reset' = since_reset \cup {r \in {res.rect} : r # NULL}
    /\ lastOp' = "wasm_gfx_update"
    /\ lastReq' = 0
    /\ lastRet' = 0
    /\ UNCHANGED displayFrame

ResourceFlush(x, y, width, height) ==
    /\ Cardinality(since_ack) < MaxRects
    /\ wasm_display_state' = wasm_gpu_resource_flush(wasm_display_state, x, y, width, height)
    /\ since_ack' = IF wasm_display_state = NULL THEN since_ack
                    ELSE since_ack \cup {<<(<<x, y, width, height>>)>>}
    /\ since_reset' = IF wasm_display_state = NULL THEN since_reset
                      ELSE since_reset \cup {<<(<<x, y, width, height>>)>>}
    /\ lastOp' = "wasm_gpu_resource_flush"
    /\ lastReq' = 0
    /\ lastRet' = 0
    /\ UNCHANGED displayFrame

FramebufferAck ==
    /\ wasm_display_state' = wasm_framebuffer_ack(wasm_display_state)
    /\ since_ack' = {}
    /\ since_reset' = {}
    /\ lastOp' = "wasm_framebuffer_ack"
    /\ lastReq' = 0
    /\ lastRet' = 0
    /\ UNCHANGED displayFrame

NextDirty ==
    \/ DisplayInit
    \/ \E new_surface \in Surfaces : GfxSwitch(new_surface)
    \/ \E x \in UpdateOrigins, y \in UpdateOrigins, w \in Extents, h \in Extents,
          hidden \in BOOLEAN :
          GfxUpdate(x, y, w, h, hidden)
    \/ \E x \in Origins, y \in Origins, width \in Extents, height \in Extents :
          ResourceFlush(x, y, width, height)
    \/ FramebufferAck

SpecDirty == Init /\ [][NextDirty]_vars

\* wasm_framebuffer_ack has left the flag clear and the region empty
AckClears ==
    (lastOp = "wasm_framebuffer_ack" /\ wasm_display_state # NULL)
        => /\ ~wasm_framebuffer_is_dirty(wasm_display_state)
           /\ wasm_get_dirty_region(wasm_display_state) = <<0, 0, 0, 0>>

=============================================================================
